---------------------------- MODULE Spec2Model ----------------------------
(***************************************************************************)
(* Model of the CSS/HTML heuristic scoring engine of the project-analysis  *)
(* backend: the variable resolver, the six analyzers and their scorers.    *)
(*                                                                         *)
(* CSS text is modelled after tokenisation: a value is a sequence of       *)
(* tokens, a token being a literal piece of text or one var() occurrence   *)
(* as the resolver's regular expression captures it.                       *)
(***************************************************************************)
EXTENDS Integers, Sequences, FiniteSets, TLC

VARIABLES
    value,          \* resolveVariable: the argument `value`
    cssVariables,   \* resolveVariable: the argument `cssVariables` (a Map or null)
    resolved,       \* resolveVariable: the local `resolved`
    iterations,     \* resolveVariable: the local `iterations`
    rvPc,           \* resolveVariable: "start" | "loop" | "done"
    call,           \* the analyzer entry point that is invoked
    arg,            \* its arguments
    pc,             \* "call" | "probing" | "done"
    ret,            \* what the call gave back: a returned value or a thrown error
    imports,        \* analyzeImports: the local `imports` array
    organizationMetrics, \* analyzeImports: the local `organizationMetrics`
    response,       \* analyzeImports: how the last awaited probe ended
    processedUrls,  \* inlineAllImports: the shared Set `processedUrls`
    errors,         \* inlineAllImports: the shared array `errors`
    stack,          \* inlineAllImports: the frames of the awaited recursive calls
    visited,        \* fetchAndCompileCss: the shared Set `visited`
    requests,       \* fetchAndCompileCss: the URLs axios.get was called with
    calls,          \* the calls in flight of an async function and their position
    files           \* the temporary files on disk: path -> content

rvVars == <<value, cssVariables, resolved, iterations, rvPc>>
anVars == <<call, arg, pc, ret>>
impVars == <<imports, organizationMetrics, response>>
ioVars == <<processedUrls, errors, stack, visited, requests, calls, files>>
vars == <<value, cssVariables, resolved, iterations, rvPc,
          call, arg, pc, ret, imports, organizationMetrics, response,
          processedUrls, errors, stack, visited, requests, calls, files>>

\* No asynchronous function of the services has been called.
IoIdle ==
    /\ processedUrls = {}
    /\ errors = <<>>
    /\ stack = <<>>
    /\ visited = {}
    /\ requests = <<>>
    /\ calls = <<>>
    /\ files = <<>>

(***************************************************************************)
(* Shared arithmetic helpers                                               *)
(***************************************************************************)
Min(a, b) == IF a <= b THEN a ELSE b
Max(a, b) == IF a >= b THEN a ELSE b

\* Math.round(n / d) for n >= 0, d > 0 with exact rational arithmetic
\* (halves round up, as Math.round does).
RoundDiv(n, d) == (2 * n + d) \div (2 * d)

\* Sum of f[x] over the finite set S.
RECURSIVE SumOver(_, _)
SumOver(S, f) ==
    IF S = {} THEN 0
    ELSE LET x == CHOOSE y \in S : TRUE IN f[x] + SumOver(S \ {x}, f)

\* Sum of the elements of a sequence of numbers.
RECURSIVE SumSeq(_)
SumSeq(s) == IF s = <<>> THEN 0 ELSE Head(s) + SumSeq(Tail(s))

\* k copies of x.
Rep(x, k) == [i \in 1..k |-> x]

\* State of a call that has not returned / of analyzeImports outside its loop.
NoReturn == [status |-> "pending"]
NoMetrics == [googleFontsCount |-> 0]
NoResponse == [kind |-> "none"]

Returned(v) == [status |-> "returned", out |-> v]
Threw(e) == [status |-> "threw", error |-> e]

(***************************************************************************)
(* resolveVariable (cssHelpers)                                            *)
(***************************************************************************)
\* Longest value, in tokens, handed to resolveVariable.
MaxValueLen == 2

maxIterations == 10

VarNames == {"--a", "--b"}

Lit(text) == [kind |-> "lit", name |-> text, fbKind |-> "none", fbName |-> ""]
\* A var() occurrence as varRegex matches it: match[1] = name, match[2] = the
\* fallback text.  [^)]+ stops at the first ")", so for var(--a, var(--b)) the
\* match is "var(--a, var(--b" and the fallback is the text "var(--b"; the
\* last ")" stays behind in the string (fbKind = "var").
VarTok(n, fk, fn) == [kind |-> "var", name |-> n, fbKind |-> fk, fbName |-> fn]

Tokens ==
    {Lit("red")}
    \cup {VarTok(n, "none", "") : n \in VarNames}
    \cup {VarTok(n, "lit", "serif") : n \in VarNames}
    \cup {VarTok(nm[1], "var", nm[2]) :
             nm \in {p \in VarNames \X VarNames : p[1] # p[2]}}

SeqsUpTo(S, n) == UNION {[1..k -> S] : k \in 0..n}

Values == SeqsUpTo(Tokens, MaxValueLen)

\* Declared values of a custom property: empty text, plain text, a reference
\* to the same or the other property, and a value that doubles on each
\* substitution.
DeclValues ==
    { <<>>, <<Lit("blue")>>, <<VarTok("--a", "none", "")>>,
      <<VarTok("--b", "none", "")>>,
      <<VarTok("--a", "none", ""), VarTok("--a", "none", "")>> }

Undeclared == [declared |-> FALSE, val |-> <<>>]
Declared(v) == [declared |-> TRUE, val |-> v]

\* cssVariables: a Map from property name to declared value, or null.
NullMap == [isNull |-> TRUE, map |-> [n \in VarNames |-> Undeclared]]
Maps == {[isNull |-> FALSE, map |-> m] :
            m \in [VarNames -> {Undeclared} \cup {Declared(v) : v \in DeclValues}]}

\* varRegex.exec(resolved) with lastIndex = 0: the leftmost var() occurrence,
\* 0 when there is none (exec returns null).
FirstVar(s) ==
    IF \E i \in 1..Len(s) : s[i].kind = "var"
    THEN CHOOSE i \in 1..Len(s) :
            /\ s[i].kind = "var"
            /\ \A j \in 1..(i - 1) : s[j].kind # "var"
    ELSE 0

\* s with its i-th token replaced by the tokens of r.
Splice(s, i, r) == SubSeq(s, 1, i - 1) \o r \o SubSeq(s, i + 1, Len(s))

\* cssVariables.get(varName) || fallback || match[0], as the text that takes
\* the place of match[0] followed by what the match left behind.
\* An empty declared value is falsy in JavaScript, like an absent one.
Replacement(tok, decls) ==
    LET d == decls.map[tok.name]
        stray == IF tok.fbKind = "var" THEN <<Lit(")")>> ELSE <<>>
    IN  IF d.declared /\ d.val # <<>> THEN d.val \o stray
        ELSE IF tok.fbKind = "lit" THEN <<Lit(tok.fbName)>>
        ELSE IF tok.fbKind = "var" THEN <<VarTok(tok.fbName, "none", "")>>
        ELSE <<tok>>

\* RvLoopCond with the bound off by one (<= for <).
RvLoopCondOffByOne(s, it) == FirstVar(s) # 0 /\ it <= maxIterations

\* The loop condition: a match exists and iterations < maxIterations.
RvLoopCond(s, it) == FirstVar(s) # 0 /\ it < maxIterations

\* if (!value || !cssVariables) return value;
RvEarlyReturn ==
    /\ rvPc = "start"
    /\ value = <<>> \/ cssVariables.isNull
    /\ resolved' = value
    /\ rvPc' = "done"
    /\ UNCHANGED <<value, cssVariables, iterations, anVars, impVars, ioVars>>

\* let resolved = value; let iterations = 0;
RvEnter ==
    /\ rvPc = "start"
    /\ ~(value = <<>> \/ cssVariables.isNull)
    /\ resolved' = value
    /\ iterations' = 0
    /\ rvPc' = "loop"
    /\ UNCHANGED <<value, cssVariables, anVars, impVars, ioVars>>

\* One pass of the while body.
RvIterate ==
    /\ rvPc = "loop"
    /\ RvLoopCond(resolved, iterations)
    /\ LET i == FirstVar(resolved)
       IN  resolved' = Splice(resolved, i, Replacement(resolved[i], cssVariables))
    /\ iterations' = iterations + 1
    /\ UNCHANGED <<value, cssVariables, rvPc, anVars, impVars, ioVars>>

\* return resolved;
RvReturn ==
    /\ rvPc = "loop"
    /\ ~RvLoopCond(resolved, iterations)
    /\ rvPc' = "done"
    /\ UNCHANGED <<value, cssVariables, resolved, iterations, anVars, impVars, ioVars>>

InitResolve ==
    /\ value \in Values
    /\ cssVariables \in Maps \cup {NullMap}
    /\ resolved = <<>>
    /\ iterations = 0
    /\ rvPc = "start"
    /\ call = "resolveVariable"
    /\ arg = <<>>
    /\ pc = "idle"
    /\ ret = NoReturn
    /\ imports = <<>>
    /\ organizationMetrics = NoMetrics
    /\ response = NoResponse
    /\ IoIdle

NextResolve == RvEarlyReturn \/ RvEnter \/ RvIterate \/ RvReturn

\* The resolver is a synchronous loop: once called it runs to its return.
SpecResolve == InitResolve /\ [][NextResolve]_vars /\ WF_vars(NextResolve)

(***************************************************************************)
(* htmlImagesAnalyzer                                                      *)
(***************************************************************************)
\* The value null of averageWeight and top5AverageWeight (weights are > 0).
NullWeight == -1

\* An image whose alt is undefined (no such property on the object).
NoAltAttr == "<undefined>"

\* alt.length of the sample alternative texts.
AltLength(alt) ==
    CASE alt = "" -> 0
      [] alt = "logo" -> 4
      [] alt = "No alt" -> 6
      [] alt = "icon of menu" -> 12
      [] alt = "Sunset over the bay" -> 19
      [] OTHER -> 0

\* genericTerms.some((term) => alt.toLowerCase().includes(term))
AltHasGenericTerm(alt) == alt = "icon of menu"

evaluateAltQuality(alt) ==
    IF alt = NoAltAttr \/ alt = "No alt" \/ alt = "" THEN "missing"
    ELSE IF AltLength(alt) < 5 \/ (AltHasGenericTerm(alt) /\ AltLength(alt) < 15)
         THEN "poor"
         ELSE "good"

isDecorativeImage(image) ==
    image.alt = "" \/ image.alt = "No alt" \/ image.ariaHidden = "true"

validExtensions == {"avif", "webp", "jpg", "jpeg", "png", "svg", "gif"}

\* detectImageFormat, with ext = src.split(".").pop().toLowerCase().split("?")[0]
\* and mimeType = "" when lighthouseRequest?.mimeType is absent.
detectImageFormat(ext, mimeType) ==
    LET extFormat == IF ext \in validExtensions THEN ext ELSE "unknown"
    IN  IF mimeType # ""
        THEN CASE mimeType = "image/avif" -> "avif"
               [] mimeType = "image/webp" -> "webp"
               [] mimeType = "image/jpeg" -> "jpg"
               [] mimeType = "image/jpg" -> "jpg"
               [] mimeType = "image/png" -> "png"
               [] mimeType = "image/svg+xml" -> "svg"
               [] mimeType = "image/gif" -> "gif"
               [] OTHER -> extFormat
        ELSE extFormat

\* The placeholder extractTitleAndImagesFromHTML stores when the tag has no
\* aria-hidden attribute (a cross mark in the source).
NoAriaHidden == "x"

\* One image of the page with what the network-request list holds for it:
\* net.lookup = "malformed" when new URL(src, baseUrl) throws, "nomatch" when
\* no request of type Image has its URL, "match" otherwise.  resourceSize 0
\* and mimeType "" stand for absent values (both are falsy, like null).
Image(alt, aria, lazy, ext, lookup, size, mime) ==
    [alt |-> alt, ariaHidden |-> aria, hasLazyLoading |-> lazy, ext |-> ext,
     net |-> [lookup |-> lookup, resourceSize |-> size, mimeType |-> mime]]

ImageSamples ==
    { Image("Sunset over the bay", NoAriaHidden, TRUE, "webp", "match", 51200, "image/webp"),
      Image("Sunset over the bay", NoAriaHidden, FALSE, "jpg", "match", 307200, "image/jpeg"),
      Image("", NoAriaHidden, TRUE, "svg", "nomatch", 0, ""),
      Image("", NoAriaHidden, FALSE, "png", "nomatch", 0, ""),
      Image("No alt", NoAriaHidden, FALSE, "png", "match", 512000, "application/octet-stream"),
      Image("logo", NoAriaHidden, FALSE, "jpeg", "nomatch", 0, ""),
      Image(NoAltAttr, "true", TRUE, "php", "match", 102400, "image/png"),
      Image("icon of menu", NoAriaHidden, FALSE, "gif", "malformed", 0, ""),
      Image("Sunset over the bay", NoAriaHidden, TRUE, "png", "match", 0, "image/webp") }

enrichImage(image, hasRequests) ==
    LET found == hasRequests /\ image.net.lookup = "match"
        size == IF found THEN image.net.resourceSize ELSE 0
        mime == IF found THEN image.net.mimeType ELSE ""
    IN  [alt |-> image.alt, ariaHidden |-> image.ariaHidden,
         hasLazyLoading |-> image.hasLazyLoading, ext |-> image.ext,
         resourceSize |-> size, mimeType |-> mime,
         format |-> detectImageFormat(image.ext, mime)]

enrichImagesWithNetworkData(images, hasRequests) ==
    [i \in 1..Len(images) |-> enrichImage(images[i], hasRequests)]

FormatKeys == {"avif", "webp", "jpg", "png", "svg", "gif", "unknown"}

\* weights.sort((a, b) => b - a)
RECURSIVE SortDesc(_)
SortDesc(s) ==
    IF s = <<>> THEN <<>>
    ELSE LET i == CHOOSE k \in 1..Len(s) : \A j \in 1..Len(s) : s[k] >= s[j]
         IN  <<s[i]>> \o SortDesc(SubSeq(s, 1, i - 1) \o SubSeq(s, i + 1, Len(s)))

\* Math.round(sum / length), null for an empty list.
AverageOrNull(ws) ==
    IF Len(ws) > 0 THEN RoundDiv(SumSeq(ws), Len(ws)) ELSE NullWeight

\* The weights kept for the averages: resourceSize truthy and format not svg.
WeightsOf(enriched) ==
    LET kept == SelectSeq(enriched, LAMBDA img : img.resourceSize # 0 /\ img.format # "svg")
    IN  [i \in 1..Len(kept) |-> kept[i].resourceSize]

Top5(ws) == SubSeq(SortDesc(ws), 1, Min(5, Len(ws)))

\* The grade ladder at the end of calculateImagesScore.
ImagesGrade(total) ==
    IF total >= 90 THEN "A"
    ELSE IF total >= 80 THEN "B"
    ELSE IF total >= 70 THEN "C"
    ELSE IF total >= 60 THEN "D"
    ELSE "F"

ImagesMaxAccessibility == 35
ImagesMaxPerformance == 35
ImagesMaxBestPractices == 30

\* The scores object as calculateImagesScore creates it; the details texts of
\* the scored branch are not modelled.
ImagesBreakdown(a, p, b, details) ==
    [accessibility |-> [score |-> a, max |-> ImagesMaxAccessibility, details |-> details],
     performance |-> [score |-> p, max |-> ImagesMaxPerformance, details |-> details],
     bestPractices |-> [score |-> b, max |-> ImagesMaxBestPractices, details |-> details]]

\* The early return of calculateImagesScore for totalImages === 0; the two
\* empty branches of synthesizeImagesAnalysis build the same object literally.
ImagesZeroScore ==
    [total |-> 100,
     breakdown |-> ImagesBreakdown(0, 0, 0, "Aucune image detectee."),
     grade |-> "A",
     improvements |-> <<"Aucune image a optimiser.">>]

\* data.decorativeRatio is kept as the integer number of hundredths that
\* parseFloat(ratio.toFixed(2)) denotes.
DecorativeRatioPct(decorativeImages, totalImages) ==
    IF totalImages > 0 THEN RoundDiv(100 * decorativeImages, totalImages) ELSE 0

ImagesAccessibilityScore(data) ==
    LET t == data.totalImages
        a == data.imagesWithAlt
        g == data.imagesWithGoodAlt
        c == Max(data.contentImages, 1)
        r == data.decorativeRatio
        altPresence == IF 10 * a >= 9 * t THEN 15
                       ELSE IF 4 * a >= 3 * t THEN 13
                       ELSE IF 10 * a >= 6 * t THEN 10
                       ELSE IF 10 * a >= 4 * t THEN 7
                       ELSE 4
        goodAlt == IF 10 * g >= 8 * c THEN 10
                   ELSE IF 10 * g >= 6 * c THEN 8
                   ELSE IF 10 * g >= 4 * c THEN 6
                   ELSE IF 4 * g >= c THEN 4
                   ELSE 2
        decorative == IF r >= 10 /\ r <= 25 THEN 10
                      ELSE IF r < 10 \/ (r > 25 /\ r <= 35) THEN 8
                      ELSE IF r <= 45 THEN 5
                      ELSE 2
    IN  altPresence + goodAlt + decorative

ImagesPerformanceScoreNoOverPenalty(data) ==
    LET t == data.totalImages
        l == data.imagesWithLazyLoading
        w == data.top5AverageWeight
        lazy == IF 10 * l >= 4 * t THEN 20
                ELSE IF 4 * l >= t THEN 17
                ELSE IF 10 * l >= t THEN 12
                ELSE 7
        weightScore == IF w # NullWeight
                       THEN IF w < 80 * 1024 THEN 15
                            ELSE IF w < 150 * 1024 THEN 13
                            ELSE IF w < 250 * 1024 THEN 10
                            ELSE IF w < 400 * 1024 THEN 7
                            ELSE 4
                       ELSE 11
    IN  lazy + weightScore

ImagesPerformanceScore(data) ==
    LET t == data.totalImages
        l == data.imagesWithLazyLoading
        w == data.top5AverageWeight
        lazy == IF 10 * l >= 4 * t /\ 10 * l <= 9 * t THEN 20
                ELSE IF 4 * l >= t /\ 10 * l < 4 * t THEN 17
                ELSE IF 10 * l > 9 * t /\ 100 * l <= 95 * t THEN 16
                ELSE IF 10 * l >= t \/ 100 * l > 95 * t THEN 12
                ELSE 7
        weightScore == IF w # NullWeight
                       THEN IF w < 80 * 1024 THEN 15
                            ELSE IF w < 150 * 1024 THEN 13
                            ELSE IF w < 250 * 1024 THEN 10
                            ELSE IF w < 400 * 1024 THEN 7
                            ELSE 4
                       ELSE 11
    IN  lazy + weightScore

ModernFormats(formats) == formats["avif"] + formats["webp"] + formats["svg"]

TotalFormats(formats) == SumOver(FormatKeys, formats)

ImagesBestPracticesScore(data) ==
    LET tf == TotalFormats(data.formats)
        mf == IF tf > 0 THEN ModernFormats(data.formats) ELSE 0
        td == IF tf > 0 THEN tf ELSE 1
        r == data.decorativeRatio
        modern == IF 10 * mf >= 8 * td THEN 15
                  ELSE IF 10 * mf >= 6 * td THEN 13
                  ELSE IF 10 * mf >= 4 * td THEN 10
                  ELSE IF 10 * mf >= 2 * td THEN 7
                  ELSE 4
        decorativeScore == IF r >= 10 /\ r <= 30 THEN 10
                           ELSE IF r < 10 \/ (r > 30 /\ r <= 40) THEN 8
                           ELSE IF r <= 50 THEN 5
                           ELSE 2
        formatCount == Cardinality({f \in FormatKeys : data.formats[f] > 0})
        coherence == IF formatCount <= 2 THEN 5
                     ELSE IF formatCount = 3 THEN 3
                     ELSE 1
    IN  modern + decorativeScore + coherence

\* The recommendations, each message named by its fixed leading words
\* (strings are written without their accents).
ImagesImprovements(data) ==
    LET t == data.totalImages
        l == data.imagesWithLazyLoading
        w == data.top5AverageWeight
        tf == TotalFormats(data.formats)
        mf == IF tf > 0 THEN ModernFormats(data.formats) ELSE 0
        td == IF tf > 0 THEN tf ELSE 1
        msgs ==
            (IF data.imagesWithoutAlt > 0 THEN <<"Ajouter des textes alt descriptifs">> ELSE <<>>)
         \o (IF data.imagesWithPoorAlt > 0 THEN <<"Ameliorer la qualite des textes alt">> ELSE <<>>)
         \o (IF 2 * l < t THEN <<"Activer le lazy loading">>
             ELSE IF 100 * l > 85 * t THEN <<"Attention : eviter le lazy loading above-the-fold">>
             ELSE <<>>)
         \o (IF w # NullWeight /\ w > 100 * 1024 THEN <<"Optimiser les 5 images les plus lourdes">> ELSE <<>>)
         \o (IF 10 * mf < 7 * td THEN <<"Utiliser des formats modernes">> ELSE <<>>)
         \o (IF data.decorativeRatio > 30 THEN <<"Ratio d'images decoratives eleve">> ELSE <<>>)
    IN  IF msgs = <<>> THEN <<"Excellente optimisation des images !">> ELSE msgs

\* calculateImagesScore past its early return.
ImagesScored(data) ==
    LET a == ImagesAccessibilityScore(data)
        p == ImagesPerformanceScore(data)
        b == ImagesBestPracticesScore(data)
        total == a + p + b
    IN  [total |-> total,
         breakdown |-> ImagesBreakdown(a, p, b, ""),
         grade |-> ImagesGrade(total),
         improvements |-> ImagesImprovements(data)]

calculateImagesScoreNoEarlyReturn(data) == ImagesScored(data)
calculateImagesScore(data) ==
    IF data.totalImages = 0 THEN ImagesZeroScore ELSE ImagesScored(data)

\* The statistics analyzeImages gathers over the enriched images.
\* The counter of formats an image is tallied under: its format when the
\* object has that key, unknown otherwise.
FormatKeyAsIs(format) == format
FormatKey(format) == IF format \in FormatKeys THEN format ELSE "unknown"

ImagesAnalysisData(enriched) ==
    LET idx == 1..Len(enriched)
        quality(i) == evaluateAltQuality(enriched[i].alt)
        decorativeImages == Cardinality({i \in idx : isDecorativeImage(enriched[i])})
        weights == WeightsOf(enriched)
    IN  [totalImages |-> Len(enriched),
         imagesWithAlt |-> Cardinality({i \in idx : quality(i) # "missing"}),
         imagesWithoutAlt |-> Cardinality({i \in idx : quality(i) = "missing"}),
         imagesWithGoodAlt |-> Cardinality({i \in idx : quality(i) = "good"}),
         imagesWithPoorAlt |-> Cardinality({i \in idx : quality(i) = "poor"}),
         decorativeImages |-> decorativeImages,
         contentImages |-> Len(enriched) - decorativeImages,
         imagesWithLazyLoading |-> Cardinality({i \in idx : enriched[i].hasLazyLoading}),
         averageWeight |-> AverageOrNull(weights),
         top5AverageWeight |-> AverageOrNull(Top5(weights)),
         formats |-> [f \in FormatKeys |->
                        Cardinality({i \in idx : FormatKey(enriched[i].format) = f})],
         decorativeRatio |-> DecorativeRatioPct(decorativeImages, Len(enriched)),
         images |-> enriched]

\* analyzeImages(images, lighthouseRequests, baseUrl): { ...analysisData, score }
analyzeImages(images, hasRequests) ==
    LET data == ImagesAnalysisData(enrichImagesWithNetworkData(images, hasRequests))
    IN  [data |-> data, score |-> calculateImagesScore(data)]

\* A page handed to synthesizeImagesAnalysis: its imagesAnalysis is absent, or
\* is what analyzeImages returned for the page's images.
\* The analysis of a page made without the network requests.
PageAnalysisWithoutRequests(page) == analyzeImages(page.images, FALSE)
PageAnalysis(page) == analyzeImages(page.images, page.hasRequests)

\* Both early returns of synthesizeImagesAnalysis.
SynthesisEmpty(totalPages) ==
    [totalPages |-> totalPages,
     globalStats |->
        [totalImages |-> 0, imagesWithAlt |-> 0, imagesWithoutAlt |-> 0,
         imagesWithGoodAlt |-> 0, imagesWithPoorAlt |-> 0, decorativeImages |-> 0,
         contentImages |-> 0, imagesWithLazyLoading |-> 0,
         averageWeight |-> NullWeight, top5AverageWeight |-> NullWeight,
         decorativeRatio |-> 0],
     formats |-> [f \in FormatKeys |-> 0],
     globalScore |-> ImagesZeroScore,
     pageScores |-> <<>>]

RECURSIVE ConcatAll(_)
ConcatAll(ss) == IF ss = <<>> THEN <<>> ELSE Head(ss) \o ConcatAll(Tail(ss))

\* pages is a sequence of pages; the value null is modelled by the caller.
synthesizeImagesAnalysis(pages) ==
    LET pagesWithImages == SelectSeq(pages, LAMBDA pg : pg.hasAnalysis)
        analyses == [i \in 1..Len(pagesWithImages) |-> PageAnalysis(pagesWithImages[i])]
        sum(field) == SumSeq([i \in 1..Len(analyses) |-> analyses[i].data[field]])
        allWeights == ConcatAll([i \in 1..Len(analyses) |-> WeightsOf(analyses[i].data.images)])
        globalFormats == [f \in FormatKeys |->
                            SumSeq([i \in 1..Len(analyses) |-> analyses[i].data.formats[f]])]
        globalStats ==
            [totalImages |-> sum("totalImages"),
             imagesWithAlt |-> sum("imagesWithAlt"),
             imagesWithoutAlt |-> sum("imagesWithoutAlt"),
             imagesWithGoodAlt |-> sum("imagesWithGoodAlt"),
             imagesWithPoorAlt |-> sum("imagesWithPoorAlt"),
             decorativeImages |-> sum("decorativeImages"),
             contentImages |-> sum("contentImages"),
             imagesWithLazyLoading |-> sum("imagesWithLazyLoading"),
             averageWeight |-> AverageOrNull(allWeights),
             top5AverageWeight |-> AverageOrNull(Top5(allWeights)),
             decorativeRatio |-> DecorativeRatioPct(sum("decorativeImages"), sum("totalImages"))]
    IN  IF Len(pages) = 0 THEN SynthesisEmpty(0)
        ELSE IF Len(pagesWithImages) = 0 THEN SynthesisEmpty(Len(pages))
        ELSE [totalPages |-> Len(pages),
              globalStats |-> globalStats,
              formats |-> globalFormats,
              globalScore |-> calculateImagesScore(globalStats @@ [formats |-> globalFormats]),
              pageScores |-> [i \in 1..Len(analyses) |->
                                [score |-> analyses[i].score.total,
                                 grade |-> analyses[i].score.grade]]]

\* Longest run of one sample image in a page, and of a second sample after it.
MaxRun == 8
MaxTail == 2
\* Most pages handed to synthesizeImagesAnalysis.
MaxPages == 2

ImagesInputs ==
    [images : {Rep(s1, k1) \o Rep(s2, k2) :
                  s1 \in ImageSamples, s2 \in ImageSamples,
                  k1 \in 0..MaxRun, k2 \in 0..MaxTail},
     hasRequests : BOOLEAN]

PageSamples ==
    {[hasAnalysis |-> FALSE, images |-> <<>>, hasRequests |-> FALSE]} \cup
    {[hasAnalysis |-> TRUE, images |-> Rep(s, k), hasRequests |-> r] :
        s \in ImageSamples, k \in 0..MaxTail, r \in BOOLEAN}

\* The pages argument: absent (null or undefined), or a list of pages.
PagesInputs ==
    {[isNull |-> TRUE, pages |-> <<>>]} \cup
    {[isNull |-> FALSE, pages |-> ps] : ps \in SeqsUpTo(PageSamples, MaxPages)}

AnalyzeImages ==
    /\ call = "analyzeImages"
    /\ pc = "call"
    /\ ret' = Returned(analyzeImages(arg.images, arg.hasRequests))
    /\ pc' = "done"
    /\ UNCHANGED <<call, arg, rvVars, impVars, ioVars>>

SynthesizeImagesAnalysis ==
    /\ call = "synthesizeImagesAnalysis"
    /\ pc = "call"
    /\ ret' = Returned(synthesizeImagesAnalysis(arg.pages))
    /\ pc' = "done"
    /\ UNCHANGED <<call, arg, rvVars, impVars, ioVars>>

(***************************************************************************)
(* cssColorsAnalyzer                                                       *)
(***************************************************************************)
\* A colour string with what parseColor gives for it: parsed = FALSE when
\* culori's parse returns nothing, else OKLCH with l and c in thousandths,
\* h in degrees (0 when culori leaves the hue undefined) and alpha in
\* hundredths.  format is the key analyzeColors files the string under.
\* hasVar is color.includes("var(").
Color(text, format, parsed, l, c, h, alpha) ==
    [color |-> text, format |-> format, parsed |-> parsed,
     l |-> l, c |-> c, h |-> h, alpha |-> alpha,
     hasVar |-> text \in {"var(--primary)", "rgb(var(--r) 0 0)"}]

Palette ==
    << Color("#ff0000", "hex", TRUE, 628, 258, 29, 100),
       Color("red", "named", TRUE, 628, 258, 29, 100),
       Color("#0000ff", "hex", TRUE, 452, 313, 264, 100),
       Color("#808080", "hex", TRUE, 600, 0, 0, 100),
       Color("#8a8a8a", "hex", TRUE, 635, 0, 0, 100),
       Color("hsl(120 100% 25%)", "hsl", TRUE, 519, 177, 142, 100),
       Color("oklch(0.7 0.1 200)", "oklch", TRUE, 700, 100, 200, 100),
       Color("rgba(0, 0, 0, 0.5)", "rgb", TRUE, 0, 0, 0, 50),
       Color("transparent", "transparent", TRUE, 0, 0, 0, 0),
       Color("var(--primary)", "variable", FALSE, 0, 0, 0, 0),
       Color("rgb(var(--r) 0 0)", "rgb", FALSE, 0, 0, 0, 0) >>

Abs(x) == IF x < 0 THEN -x ELSE x

minHueDiff(h1, h2) ==
    LET diff == Abs(h1 - h2) IN IF diff > 180 THEN 360 - diff ELSE diff

isTransparent(col) == IF col.parsed THEN col.alpha < 100 ELSE FALSE

\* areColorsSimilar without the Math.abs on the lightness difference.
areColorsSimilarSigned(c1, c2) ==
    IF ~c1.parsed \/ ~c2.parsed THEN FALSE
    ELSE IF c1.c < 20 /\ c2.c < 20 THEN c1.l - c2.l < 70
    ELSE /\ c1.l - c2.l < 100
         /\ Abs(c1.c - c2.c) < 60
         /\ minHueDiff(c1.h, c2.h) < 35

\* areColorsSimilar with its default thresholds 0.1, 0.06 and 35.
areColorsSimilar(c1, c2) ==
    IF ~c1.parsed \/ ~c2.parsed THEN FALSE
    ELSE IF c1.c < 20 /\ c2.c < 20 THEN Abs(c1.l - c2.l) < 70
    ELSE /\ Abs(c1.l - c2.l) < 100
         /\ Abs(c1.c - c2.c) < 60
         /\ minHueDiff(c1.h, c2.h) < 35

\* detectSimilarColors: the double loop tests each pair i < j once and, on
\* a hit, flags both entries and pushes each colour on the other's similarTo.
detectSimilarColors(colors) ==
    LET n == Len(colors)
        hits == {p \in (1..n) \X (1..n) :
                    p[1] < p[2] /\ areColorsSimilar(colors[p[1]], colors[p[2]])}
        partners(i) == SelectSeq([j \in 1..n |-> j],
                           LAMBDA j : j # i /\ <<Min(i, j), Max(i, j)>> \in hits)
    IN  [i \in 1..n |->
            [color |-> colors[i].color, hasVar |-> colors[i].hasVar,
             isSimilar |-> \E p \in hits : p[1] = i \/ p[2] = i,
             similarTo |-> [k \in 1..Len(partners(i)) |->
                               colors[partners(i)[k]].color]]]

\* groupColorsByHue: the hueRange keys of the groups, -1 for the achromatic one.
groupColorsByHue(colors) ==
    LET idx == {i \in 1..Len(colors) : colors[i].parsed}
    IN  {(colors[i].h \div 40) * 40 : i \in {k \in idx : colors[k].c >= 20}}
        \cup (IF \E i \in idx : colors[i].c < 20 THEN {-1} ELSE {})

ColorsGrade(total) ==
    IF total >= 90 THEN "A"
    ELSE IF total >= 80 THEN "B"
    ELSE IF total >= 70 THEN "C"
    ELSE IF total >= 60 THEN "D"
    ELSE "F"

Criterion(score, max) == [score |-> score, max |-> max]

ColorsFormatsBase(formatCount) ==
    IF formatCount = 1 THEN 20
    ELSE IF formatCount = 2 THEN 15
    ELSE IF formatCount = 3 THEN 10
    ELSE 5

calculateColorsScore(colorData) ==
    LET u == colorData.uniqueColors
        s == colorData.similarColorsCount
        t == colorData.totalColors
        tr == Len(colorData.transparentColors)
        groups == Cardinality(colorData.colorGroups)
        formats == colorData.formats
        usesVar == \E i \in 1..Len(colorData.opaqueColors) :
                        colorData.opaqueColors[i].hasVar
        palette == IF u >= 8 /\ u <= 15 THEN 30
                   ELSE IF u >= 5 /\ u < 8 THEN 25
                   ELSE IF u >= 16 /\ u <= 20 THEN 20
                   ELSE IF u > 20 THEN 10
                   ELSE 15
        sim == IF u > 0 THEN s ELSE 0
        ud == IF u > 0 THEN u ELSE 1
        consistency == IF sim = 0 THEN 25
                       ELSE IF 10 * sim < 2 * ud THEN 20
                       ELSE IF 10 * sim < 4 * ud THEN 10
                       ELSE 0
        modern == "oklch" \in formats \/ "hsl" \in formats
        formatsScore == ColorsFormatsBase(Cardinality(formats)) + (IF modern THEN 5 ELSE 0)
        trn == IF t > 0 THEN tr ELSE 0
        td == IF t > 0 THEN t ELSE 1
        transparency == IF trn > 0 /\ 10 * trn < 3 * td THEN 15
                        ELSE IF 10 * trn >= 3 * td /\ 2 * trn < td THEN 10
                        ELSE IF 2 * trn >= td THEN 5
                        ELSE 12
        bestPractices == (IF groups >= 3 /\ groups <= 6 THEN 5 ELSE 0)
                         + (IF usesVar THEN 5 ELSE 0)
        total == palette + consistency + formatsScore + transparency + bestPractices
        improvements ==
            (IF u > 20 THEN <<"Reduire le nombre de couleurs">> ELSE <<>>)
         \o (IF 10 * sim > 3 * ud THEN <<"Harmoniser les couleurs similaires">> ELSE <<>>)
         \o (IF Cardinality(formats) > 2 THEN <<"Uniformiser les formats de couleurs">> ELSE <<>>)
         \o (IF ~modern THEN <<"Envisager l'utilisation de formats modernes">> ELSE <<>>)
         \o (IF groups > 6 THEN <<"Limiter les gammes de teintes">> ELSE <<>>)
         \o (IF ~usesVar THEN <<"Utiliser des variables CSS">> ELSE <<>>)
    IN  [total |-> total,
         breakdown |-> [palette |-> Criterion(palette, 30),
                        consistency |-> Criterion(consistency, 25),
                        formats |-> Criterion(formatsScore, 20),
                        transparency |-> Criterion(transparency, 15),
                        bestPractices |-> Criterion(bestPractices, 10)],
         grade |-> ColorsGrade(total),
         improvements |-> improvements]

\* Object.entries(projectWallaceColors.unique)
RECURSIVE ColorsArray(_, _)
ColorsArray(unique, from) ==
    IF from > Len(Palette) THEN <<>>
    ELSE (IF from \in unique THEN <<Palette[from]>> ELSE <<>>)
         \o ColorsArray(unique, from + 1)

ColorsNoDataScore ==
    [total |-> 0, breakdown |-> <<>>, grade |-> "N/A",
     improvements |-> <<"Aucune couleur detectee dans le CSS">>]

analyzeColors(projectWallaceColors) ==
    IF projectWallaceColors.isNull \/ ~projectWallaceColors.hasUnique
    THEN [totalColors |-> 0, uniqueColors |-> 0, colors |-> <<>>,
          opaqueColors |-> <<>>, formats |-> {}, score |-> ColorsNoDataScore]
    ELSE LET colorsArray == ColorsArray(projectWallaceColors.unique, 1)
             transparentColors == SelectSeq(colorsArray, isTransparent)
             opaqueColors == SelectSeq(colorsArray, LAMBDA col : ~isTransparent(col))
             opaqueWithSimilarity == detectSimilarColors(opaqueColors)
             similarColorsCount ==
                 Cardinality({i \in 1..Len(opaqueWithSimilarity) :
                                 opaqueWithSimilarity[i].isSimilar})
             formats == {colorsArray[i].format : i \in 1..Len(colorsArray)}
             total == projectWallaceColors.count * Len(colorsArray)
         IN  [totalColors |-> total,
              uniqueColors |-> Len(colorsArray),
              colors |-> colorsArray,
              opaqueColors |-> opaqueWithSimilarity,
              formats |-> formats,
              score |-> calculateColorsScore(
                  [totalColors |-> total,
                   uniqueColors |-> Len(colorsArray),
                   transparentColors |-> transparentColors,
                   opaqueColors |-> opaqueWithSimilarity,
                   similarColorsCount |-> similarColorsCount,
                   colorGroups |-> groupColorsByHue(opaqueColors),
                   formats |-> formats])]

\* Largest number of occurrences of each colour of the table.
MaxCount == 2

\* The argument of analyzeColors: null, an object without `unique`, or the
\* table `unique` (the palette entries at the indices in `unique`, in palette
\* order, each counted `count` times) with its totals.
ColorsInputs ==
    {[isNull |-> TRUE, hasUnique |-> FALSE, unique |-> {}, count |-> 0],
     [isNull |-> FALSE, hasUnique |-> FALSE, unique |-> {}, count |-> 0]} \cup
    {[isNull |-> FALSE, hasUnique |-> TRUE, unique |-> u, count |-> k] :
        u \in SUBSET (1..Len(Palette)), k \in 1..MaxCount}

AnalyzeColors ==
    /\ call = "analyzeColors"
    /\ pc = "call"
    /\ ret' = Returned(analyzeColors(arg))
    /\ pc' = "done"
    /\ UNCHANGED <<call, arg, rvVars, impVars, ioVars>>

(***************************************************************************)
(* cssImportsAnalyzer                                                      *)
(***************************************************************************)
\* An import path with what the helpers' tests see in it: http is
\* startsWith("http://") || startsWith("https://"), googleHost is
\* includes("fonts.googleapis.com") || includes("fonts.gstatic.com"),
\* endsNormalize is /normalize\.css$/i, framework is the includes() test of
\* the four framework names, parts are the lower-cased segments without the
\* .css suffix, and the last four flags are the tests made on the file name.
ImportPath(text, http, googleHost, endsNormalize, framework, parts, spaces, accents, special, upper) ==
    [text |-> text, http |-> http, googleHost |-> googleHost,
     endsNormalize |-> endsNormalize, framework |-> framework, parts |-> parts,
     spaces |-> spaces, accents |-> accents, special |-> special, upper |-> upper]

isNormalizeCSS(importPath) == importPath.endsNormalize

isGoogleFont(importPath) == importPath.googleHost

getImportType(importPath) ==
    IF isGoogleFont(importPath) THEN "google-fonts"
    ELSE IF importPath.http THEN "external"
    ELSE "relative"

\* The category one path segment selects in the loop over parts, "" for none.
PartCategory(part) ==
    IF part \in {"base", "reset", "global", "core"} THEN "base"
    ELSE IF part \in {"component", "comp", "module", "modules"} THEN "components"
    ELSE IF part \in {"layout", "layouts", "grid", "structure"} THEN "layout"
    ELSE IF part \in {"util", "utils", "utilities", "helper", "helpers"} THEN "utils"
    ELSE IF part \in {"theme", "themes", "variable", "variables", "config"} THEN "theme"
    ELSE IF part \in {"vendor", "vendors", "lib", "libs", "external"} THEN "vendor"
    ELSE IF part \in {"page", "pages", "view", "views"} THEN "pages"
    ELSE ""

categorizeImportByPath(importPath) ==
    LET parts == importPath.parts
        hits == {i \in 1..Len(parts) : PartCategory(parts[i]) # ""}
        filename == IF Len(parts) > 0 THEN parts[Len(parts)] ELSE ""
    IN  IF importPath.http
        THEN IF isGoogleFont(importPath) THEN "fonts"
             ELSE IF isNormalizeCSS(importPath) THEN "normalize"
             ELSE IF importPath.framework THEN "framework"
             ELSE "vendor"
        ELSE IF hits # {}
             THEN PartCategory(parts[CHOOSE i \in hits : \A j \in hits : i <= j])
        ELSE IF filename \in {"main", "index", "app", "style", "styles"} THEN "main"
        ELSE IF filename \in {"variable", "config", "setting", "settings"} THEN "theme"
        ELSE IF filename \in {"reset", "normalize", "base"} THEN "base"
        ELSE "custom"

\* The value null of fileSize (no content-length header was read).
NullSize == -1

\* What axios.head does for one probe: it resolves with a response (a 2xx
\* status, with or without a content-length header) or rejects (a status
\* outside 2xx, a network error, the 3000 ms timeout).
Outcome(kind, status, contentLength, reason) ==
    [kind |-> kind, status |-> status, contentLength |-> contentLength, reason |-> reason]
Response(status, contentLength) == Outcome("response", status, contentLength, "")

\* The kind "unresolvable" stands for new URL(importPath, baseUrl) throwing:
\* no probe was sent.

ProbeOutcomes ==
    {Response(200, NullSize), Response(200, 20000), Response(200, 150000),
     Response(204, NullSize)}
    \cup {Outcome("rejected", 0, NullSize, r) : r \in {"status", "network", "timeout"}}

\* isValid as the try block or the catch block leaves it.
ProbeIsValidAnyResponse(outcome) == outcome.kind = "response"
ProbeIsValid(outcome) == outcome.kind = "response" /\ outcome.status = 200

\* fileSize as the try block leaves it.
ProbeFileSize(outcome) ==
    IF outcome.kind = "response" THEN outcome.contentLength ELSE NullSize

\* One statement of the stylesheet: an @import rule, or an @import rule inside
\* a comment (removed before the rules are matched).
Statement(commented, path, mediaQuery) ==
    [commented |-> commented, path |-> path, mediaQuery |-> mediaQuery]

Statements ==
    LET reset == ImportPath("./base/reset.css", FALSE, FALSE, FALSE, FALSE,
                            <<"base", "reset">>, FALSE, FALSE, FALSE, FALSE)
    IN  {Statement(FALSE,
            ImportPath("https://fonts.googleapis.com/css?family=Roboto", TRUE, TRUE, FALSE,
                       FALSE, <<"https:", "fonts.googleapis.com", "css?family=roboto">>,
                       FALSE, FALSE, TRUE, TRUE), ""),
         Statement(FALSE,
            ImportPath("https://cdn.example.com/normalize.css", TRUE, FALSE, TRUE, FALSE,
                       <<"https:", "cdn.example.com", "normalize">>,
                       FALSE, FALSE, FALSE, FALSE), ""),
         Statement(FALSE,
            ImportPath("components/Button Primary.css", FALSE, FALSE, FALSE, FALSE,
                       <<"components", "button primary">>, TRUE, FALSE, FALSE, TRUE),
            "screen"),
         Statement(FALSE, reset, ""),
         Statement(TRUE, reset, "")}

\* The matches of importRegex in the stylesheet without its comments.
ImportMatches(css) == SelectSeq(css, LAMBDA st : ~st.commented)

\* organizationMetrics as analyzeImports creates it; categories is the
\* object of counts, here a function on the categories seen so far.
ZeroMetrics ==
    [googleFontsCount |-> 0, externalCount |-> 0, relativeCount |-> 0,
     categories |-> <<>>,
     namingIssues |-> [totalFiles |-> 0, filesWithIssues |-> 0, withSpaces |-> 0,
                       withAccents |-> 0, withSpecialChars |-> 0, withUpperCase |-> 0]]

Bump(b) == IF b THEN 1 ELSE 0

\* The counters after one more match of the loop.
CountImport(metrics, importPath) ==
    LET type == getImportType(importPath)
        category == categorizeImportByPath(importPath)
        cats == metrics.categories
        named == type = "relative" /\ ~isGoogleFont(importPath)
        issues == importPath.spaces \/ importPath.accents
                  \/ importPath.special \/ importPath.upper
        n == metrics.namingIssues
    IN  [googleFontsCount |-> metrics.googleFontsCount + Bump(isGoogleFont(importPath)),
         externalCount |-> metrics.externalCount + Bump(type = "external"),
         relativeCount |-> metrics.relativeCount + Bump(type = "relative"),
         categories |-> [c \in DOMAIN cats \cup {category} |->
                            (IF c \in DOMAIN cats THEN cats[c] ELSE 0) + Bump(c = category)],
         namingIssues |->
            IF named
            THEN [totalFiles |-> n.totalFiles + 1,
                  filesWithIssues |-> n.filesWithIssues + Bump(issues),
                  withSpaces |-> n.withSpaces + Bump(importPath.spaces),
                  withAccents |-> n.withAccents + Bump(importPath.accents),
                  withSpecialChars |-> n.withSpecialChars + Bump(importPath.special),
                  withUpperCase |-> n.withUpperCase + Bump(importPath.upper)]
            ELSE n]

\* The record pushed for one match, given how its probe ended.
ImportRecord(rule, outcome) ==
    [path |-> rule.path.text,
     resolvedUrl |-> [viaBase |-> ~rule.path.http /\ outcome.kind # "unresolvable",
                      path |-> rule.path.text],
     mediaQuery |-> rule.mediaQuery,
     isValid |-> ProbeIsValid(outcome),
     isNormalize |-> isNormalizeCSS(rule.path),
     isGoogleFont |-> isGoogleFont(rule.path),
     type |-> getImportType(rule.path),
     category |-> categorizeImportByPath(rule.path),
     fileSize |-> ProbeFileSize(outcome)]

ImportsGrade(totalScore) ==
    IF totalScore >= 90 THEN "A"
    ELSE IF totalScore >= 80 THEN "B"
    ELSE IF totalScore >= 70 THEN "C"
    ELSE IF totalScore >= 60 THEN "D"
    ELSE "F"

ImportsCriterion(score, max, details) == [score |-> score, max |-> max, details |-> details]

ImportsValidity(data) ==
    LET total == data.total
        valid == data.organization.validCount
    IN  IF total = 0 THEN ImportsCriterion(0, 25, "Aucun import detecte.")
        ELSE ImportsCriterion(RoundDiv(25 * valid, total), 25,
                 IF valid = total THEN "Tous les imports sont valides."
                 ELSE "import(s) invalide(s)")

ImportsOrganization(data) ==
    LET total == data.total
        org == data.organization
        categoryCount == Cardinality(DOMAIN org.categories)
        hasMultipleCategories == categoryCount >= 3
        score == Min(15, categoryCount * 3)
                 + (IF org.relativeCount > 0 /\ 10 * org.relativeCount >= 3 * total
                    THEN 10 ELSE 0)
                 + (IF hasMultipleCategories THEN 5 ELSE 0)
    IN  ImportsCriterion(Min(30, score), 30,
            IF hasMultipleCategories THEN "Bonne modularite."
            ELSE IF categoryCount = 0 THEN "Aucune organisation detectee."
            ELSE "Manque de modularite.")

\* The modularity criterion with an uncapped penalty of 2 per large file.
ImportsModularityUncapped(data) ==
    LET total == data.total
        base == IF total >= 15 /\ total <= 25 THEN 20
                ELSE IF total >= 10 /\ total < 15 THEN 15
                ELSE IF total > 25 /\ total <= 30 THEN 17
                ELSE IF total >= 5 /\ total < 10 THEN 10
                ELSE IF total > 30 THEN 12
                ELSE IF total > 0 THEN 5
                ELSE 0
        largeFiles == Cardinality({i \in 1..Len(data.imports) :
                                      /\ data.imports[i].fileSize # NullSize
                                      /\ data.imports[i].fileSize > 100000})
    IN  ImportsCriterion(Max(0, base - largeFiles * 2), 20,
            IF total = 0 THEN "Aucun import. " ELSE "imports.")

ImportsModularity(data) ==
    LET total == data.total
        base == IF total >= 15 /\ total <= 25 THEN 20
                ELSE IF total >= 10 /\ total < 15 THEN 15
                ELSE IF total > 25 /\ total <= 30 THEN 17
                ELSE IF total >= 5 /\ total < 10 THEN 10
                ELSE IF total > 30 THEN 12
                ELSE IF total > 0 THEN 5
                ELSE 0
        largeFiles == Cardinality({i \in 1..Len(data.imports) :
                                      /\ data.imports[i].fileSize # NullSize
                                      /\ data.imports[i].fileSize > 100000})
        modularityScore == IF largeFiles > 0 THEN base - Min(5, largeFiles * 2) ELSE base
    IN  ImportsCriterion(Max(0, modularityScore), 20,
            IF total = 0 THEN "Aucun import. " ELSE "imports.")

ImportsNaming(data) ==
    LET n == data.organization.namingIssues
    IN  IF n.totalFiles = 0 THEN ImportsCriterion(0, 15, "Aucun fichier a analyser.")
        ELSE ImportsCriterion(RoundDiv(15 * (n.totalFiles - n.filesWithIssues), n.totalFiles), 15,
                 IF n.filesWithIssues = 0 THEN "Conventions de nommage respectees."
                 ELSE "fichier(s) avec problemes")

ImportsBestPractices(data) ==
    LET org == data.organization
        normalizeImports == Cardinality({i \in 1..Len(data.imports) : data.imports[i].isNormalize})
        fontsOk == org.googleFontsCount > 0 /\ org.googleFontsCount <= 2
        score == (IF normalizeImports > 0 THEN 3 ELSE 0)
                 + (IF fontsOk THEN 4 ELSE 0)
                 + (IF org.externalCount <= 3 THEN 3 ELSE 0)
        hasMessage == normalizeImports > 0 \/ org.googleFontsCount > 2 \/ org.externalCount > 3
    IN  ImportsCriterion(score, 10,
            IF hasMessage THEN "Bonnes pratiques / Problemes"
            ELSE "Bonnes pratiques respectees.")

calculateImportsScore(data) ==
    LET breakdown == [validity |-> ImportsValidity(data),
                      organization |-> ImportsOrganization(data),
                      performance |-> ImportsModularity(data),
                      naming |-> ImportsNaming(data),
                      bestPractices |-> ImportsBestPractices(data)]
        totalScore == breakdown.validity.score + breakdown.organization.score
                      + breakdown.performance.score + breakdown.naming.score
                      + breakdown.bestPractices.score
        org == data.organization
        improvements ==
            (IF org.invalidCount > 0 THEN <<"Corriger les imports invalides ou inaccessibles">> ELSE <<>>)
         \o (IF Cardinality(DOMAIN org.categories) < 3 THEN <<"Organiser le CSS en categories">> ELSE <<>>)
         \o (IF data.total < 10 THEN <<"Augmenter la modularite">>
             ELSE IF data.total > 30 THEN <<"Trop de fichiers">>
             ELSE <<>>)
         \o (IF org.googleFontsCount > 2 THEN <<"Limiter le nombre de polices Google Fonts">> ELSE <<>>)
         \o (IF org.namingIssues.filesWithIssues > 0 THEN <<"Renommer les fichiers">> ELSE <<>>)
    IN  [total |-> totalScore, breakdown |-> breakdown,
         grade |-> ImportsGrade(totalScore), improvements |-> improvements]

\* analysisData as analyzeImports builds it after the loop.
ImportsAnalysisData(imps, metrics) ==
    [total |-> Len(imps),
     imports |-> imps,
     organization |->
        [googleFontsCount |-> metrics.googleFontsCount,
         externalCount |-> metrics.externalCount,
         relativeCount |-> metrics.relativeCount,
         validCount |-> Cardinality({i \in 1..Len(imps) : imps[i].isValid}),
         invalidCount |-> Cardinality({i \in 1..Len(imps) : ~imps[i].isValid}),
         categories |-> metrics.categories,
         namingIssues |-> metrics.namingIssues]]

\* Most statements of a stylesheet handed to analyzeImports.
MaxStatements == 3

\* Comment removal, the regular expression and the empty metrics.
AnalyzeImportsEnter ==
    /\ call = "analyzeImports"
    /\ pc = "call"
    /\ pc' = "probing"
    /\ imports' = <<>>
    /\ organizationMetrics' = ZeroMetrics
    /\ UNCHANGED <<call, arg, ret, response, rvVars, ioVars>>

\* One iteration of the while loop: the next match is counted, probed
\* (awaited before the loop goes on) and pushed.
AnalyzeImportsProbe ==
    /\ call = "analyzeImports"
    /\ pc = "probing"
    /\ Len(imports) < Len(ImportMatches(arg.css))
    /\ LET rule == ImportMatches(arg.css)[Len(imports) + 1]
       IN  \E outcome \in (IF ~rule.path.http /\ ~arg.baseUrlOk
                           THEN {Outcome("unresolvable", 0, NullSize, "")} ELSE ProbeOutcomes) :
              /\ response' = outcome
              /\ imports' = Append(imports, ImportRecord(rule, outcome))
              /\ organizationMetrics' = CountImport(organizationMetrics, rule.path)
    /\ UNCHANGED <<call, arg, pc, ret, rvVars, ioVars>>

\* The loop has ended: the score is computed and the analysis returned.
AnalyzeImportsReturn ==
    /\ call = "analyzeImports"
    /\ pc = "probing"
    /\ Len(imports) = Len(ImportMatches(arg.css))
    /\ LET data == ImportsAnalysisData(imports, organizationMetrics)
       IN  ret' = Returned(data @@ [score |-> calculateImportsScore(data)])
    /\ pc' = "done"
    /\ UNCHANGED <<call, arg, impVars, rvVars, ioVars>>

\* organizationMetrics after the loop has counted the matches of a list.
RECURSIVE MetricsAfter(_)
MetricsAfter(rules) ==
    IF rules = <<>> THEN ZeroMetrics
    ELSE CountImport(MetricsAfter(SubSeq(rules, 1, Len(rules) - 1)),
                     rules[Len(rules)].path)

\* Most imports of the scored stylesheets whose file is at most 100000 bytes
\* or of unknown size, and most whose file is larger.
MaxSmallFiles == 31
MaxLargeFiles == 4

\* analysisData of stylesheets with many imports, as analyzeImports hands it
\* to calculateImportsScore: small relative files answered 200 with
\* content-length 20000, files without content-length, then files of 150000.
ScorerInputs ==
    LET rule == CHOOSE st \in Statements : ~st.commented /\ st.path.text = "./base/reset.css"
    IN  {ImportsAnalysisData(
             Rep(ImportRecord(rule, Response(200, 20000)), small)
                \o Rep(ImportRecord(rule, Response(200, NullSize)), unknown)
                \o Rep(ImportRecord(rule, Response(200, 150000)), large),
             MetricsAfter(Rep(rule, small + unknown + large))) :
         small \in 0..MaxSmallFiles, unknown \in 0..1, large \in 0..MaxLargeFiles}

\* calculateImportsScore applied to the analysisData of a finished loop.
CalculateImportsScore ==
    /\ call = "calculateImportsScore"
    /\ pc = "call"
    /\ ret' = Returned(calculateImportsScore(arg))
    /\ pc' = "done"
    /\ UNCHANGED <<call, arg, rvVars, impVars, ioVars>>

(***************************************************************************)
(* cssVariablesAnalyzer                                                    *)
(***************************************************************************)
\* One declaration `prop: value;` of the stylesheet: custom is TRUE for a
\* custom property (--name), uses lists the names of the var() occurrences of
\* the value in order, nameWords and valueWords are the words categorizeVariable
\* tests for that the name and the value contain.
Decl(prop, custom, val, uses, nameWords, valueWords) ==
    [prop |-> prop, custom |-> custom, value |-> val, uses |-> uses,
     nameWords |-> nameWords, valueWords |-> valueWords]

DeclSamples ==
    { Decl("primary-color", TRUE, "#336699", <<>>, {"color"}, {"#", "hex"}),
      Decl("primary-color", TRUE, "8px", <<>>, {"color"}, {"digits"}),
      Decl("space-md", TRUE, "8px", <<>>, {"space"}, {"digits"}),
      Decl("font-main", TRUE, "Arial", <<>>, {"font"}, {}),
      Decl("container-width", TRUE, "960px", <<>>, {"width", "container"}, {"digits"}),
      Decl("radius-sm", TRUE, "4px", <<>>, {"radius"}, {"digits"}),
      Decl("accent", TRUE, "var(--primary-color)", <<"primary-color">>, {}, {}),
      Decl("color", FALSE, "var(--primary-color)", <<"primary-color">>, {"color"}, {}),
      Decl("margin", FALSE, "var(--gap, 4px)", <<"gap">>, {"margin"}, {}),
      Decl("color", FALSE, "red", <<>>, {"color"}, {}) }

categorizeVariable(decl) ==
    LET n(w) == w \in decl.nameWords
        v(w) == w \in decl.valueWords
    IN  IF \/ n("color") \/ n("bg") \/ n("background") \/ n("border-color")
           \/ (n("text") /\ (v("#") \/ v("rgb") \/ v("hsl") \/ v("oklch")))
           \/ v("hex") \/ v("rgb") \/ v("hsl") \/ v("oklch") \/ v("currentcolor")
        THEN "color"
        ELSE IF \/ n("font") \/ n("text") \/ n("letter-spacing") \/ n("line-height")
                \/ (n("weight") /\ ~n("border"))
        THEN "typography"
        ELSE IF \/ n("spacing") \/ n("space") \/ n("gap") \/ n("margin") \/ n("padding")
                \/ (n("size-token") /\ v("digits"))
        THEN "spacing"
        ELSE IF \/ n("width") \/ n("height") \/ n("max-width") \/ n("min-width")
                \/ n("container") \/ n("breakpoint")
        THEN "layout"
        ELSE IF n("z-index") \/ (n("z") /\ v("integer"))
        THEN "zIndex"
        ELSE IF n("radius") \/ n("rounded")
        THEN "radius"
        ELSE "other"

VariablesGrade(total) ==
    IF total >= 90 THEN "A"
    ELSE IF total >= 80 THEN "B"
    ELSE IF total >= 70 THEN "C"
    ELSE IF total >= 60 THEN "D"
    ELSE "F"

\* ratio.variableRatio is kept as the fraction variableUsages / properties.
calculateVariablesScore(data) ==
    LET d == data.totalDeclared
        u == data.totalUsed
        und == data.totalUndeclared
        num == data.ratio.variableRatio[1]
        den == data.ratio.variableRatio[2]
        atLeast(p, q) == q * num >= p * den     \* variableRatio >= p / q
        adoption == IF num = 0 THEN 0
                    ELSE IF atLeast(35, 100) THEN 40
                    ELSE RoundDiv(800 * num, 7 * den)
        coverage == IF d = 0 THEN 0
                    ELSE IF 5 * u >= 4 * d THEN 25
                    ELSE IF 5 * u >= 2 * d THEN 1 + RoundDiv(30 * u, d)
                    ELSE IF 5 * u >= d THEN RoundDiv(35 * u, d) - 1
                    ELSE IF u > 0 THEN RoundDiv(30 * u, d)
                    ELSE 0
        penaltyUndeclared == Min(12, und * 4)
        penaltyUnused == IF d > 0 THEN RoundDiv(8 * data.totalUnused, d) ELSE 0
        hygiene == Max(0, 20 - (penaltyUndeclared + penaltyUnused))
        covered == Cardinality({k \in {"color", "typography", "spacing", "radius"} :
                                    data.categorization[k] > 0})
        categories == RoundDiv(covered * 10, 4)
        bestPractices == (IF atLeast(35, 100) THEN 3
                          ELSE IF atLeast(25, 100) THEN 2
                          ELSE IF atLeast(15, 100) THEN 1
                          ELSE 0)
                         + (IF und = 0 THEN 2 ELSE 0)
        total == adoption + coverage + hygiene + categories + bestPractices
        improvements ==
            (IF ~atLeast(25, 100) THEN <<"Augmenter l'usage des variables sur les proprietes CSS">> ELSE <<>>)
         \o (IF 4 * u < 3 * d /\ d > 0 THEN <<"Supprimer les variables inutilisees ou les mettre en usage">> ELSE <<>>)
         \o (IF und > 0 THEN <<"Declarer toutes les variables utilisees (eviter var(--x) non declarees)">> ELSE <<>>)
         \o (IF 2 * covered < 4 THEN <<"Elargir la couverture des variables (couleurs, typos, espacements, etc.)">> ELSE <<>>)
    IN  [total |-> total,
         breakdown |-> [adoption |-> Criterion(adoption, 40),
                        coverage |-> Criterion(coverage, 25),
                        hygiene |-> Criterion(hygiene, 20),
                        categories |-> Criterion(categories, 10),
                        bestPractices |-> Criterion(bestPractices, 5)],
         grade |-> VariablesGrade(total),
         improvements |-> improvements]

\* The category a record is filed under without the fallback on other.
CategoryKeyAsIs(category) == category

\* variable.category in categorized ? variable.category : "other"
CategoryKey(category) ==
    IF category \in {"color", "typography", "spacing", "radius", "other"}
    THEN category ELSE "other"

\* The positions whose declaration would overwrite the record of its name:
\* the last custom declaration of each name.
LastDeclarations(css) ==
    SelectSeq([i \in 1..Len(css) |-> i],
        LAMBDA i : /\ css[i].custom
                   /\ \A j \in (i + 1)..Len(css) :
                         ~(css[j].custom /\ css[j].prop = css[i].prop))

\* The positions at which the declaration loop finds !declarations.has(varName)
\* and sets a record: the first custom declaration of each name.
NewDeclarations(css) ==
    SelectSeq([i \in 1..Len(css) |-> i],
        LAMBDA i : /\ css[i].custom
                   /\ \A j \in 1..(i - 1) :
                         ~(css[j].custom /\ css[j].prop = css[i].prop))

analyzeCustomProperties(css) ==
    LET idx == 1..Len(css)
        declared == {css[i].prop : i \in {k \in idx : css[k].custom}}
        firsts == NewDeclarations(css)
        usesAll == ConcatAll([i \in idx |-> css[i].uses])
        usageCount(name) == Cardinality({k \in 1..Len(usesAll) : usesAll[k] = name})
        declarations == [k \in 1..Len(firsts) |->
                            [name |-> css[firsts[k]].prop,
                             value |-> css[firsts[k]].value,
                             usageCount |-> usageCount(css[firsts[k]].prop),
                             category |-> categorizeVariable(css[firsts[k]])]]
        undeclaredAt == SelectSeq([k \in 1..Len(usesAll) |-> k],
                            LAMBDA k : /\ usesAll[k] \notin declared
                                       /\ \A j \in 1..(k - 1) : usesAll[j] # usesAll[k])
        unused == SelectSeq(declarations, LAMBDA v : v.usageCount = 0)
        variableUsages == Cardinality({i \in idx : css[i].uses # <<>>})
        rawProperties == Len(css) - variableUsages
        inCategory(c) == Cardinality({k \in 1..Len(declarations) :
                            CategoryKey(declarations[k].category) = c})
        result ==
            [totalDeclared |-> Len(declarations),
             totalUsed |-> Len(declarations) - Len(unused),
             totalUnused |-> Len(unused),
             totalUndeclared |-> Len(undeclaredAt),
             declarations |-> declarations,
             unusedVariables |-> unused,
             undeclaredUsages |-> [k \in 1..Len(undeclaredAt) |-> usesAll[undeclaredAt[k]]],
             categorization |-> [c \in {"color", "typography", "spacing", "radius", "other"} |->
                                    inCategory(c)],
             ratio |-> [variableUsages |-> variableUsages,
                        rawProperties |-> rawProperties,
                        variableRatio |-> IF Len(declarations) > 0
                                          THEN <<variableUsages, Len(css)>>
                                          ELSE <<0, 1>>]]
    IN  result @@ [score |-> calculateVariablesScore(result)]

\* Most declarations of a stylesheet handed to analyzeCustomProperties.
MaxDecls == 3

AnalyzeCustomProperties ==
    /\ call = "analyzeCustomProperties"
    /\ pc = "call"
    /\ ret' = Returned(analyzeCustomProperties(arg))
    /\ pc' = "done"
    /\ UNCHANGED <<call, arg, rvVars, impVars, ioVars>>

(***************************************************************************)
(* classAnalysisService                                                    *)
(***************************************************************************)
\* A class name is the sequence of its parts: words, and the separators "__"
\* and "--".  BemWords are the words matching [a-z0-9]+(?:-[a-z0-9]+)*; "Btn"
\* is a word that does not.
BemWords == {"btn", "card", "nav", "icon", "title", "primary", "wide", "lg", "unused-thing"}

BemShape(cls, seps) ==
    /\ Len(cls) = 2 * Len(seps) + 1
    /\ \A k \in 1..Len(cls) :
          IF k % 2 = 1 THEN cls[k] \in BemWords ELSE cls[k] = seps[k \div 2]

blockPattern(cls) == BemShape(cls, <<>>)
elementPattern(cls) == BemShape(cls, <<"__">>)
blockModPattern(cls) == BemShape(cls, <<"--">>)
elementModPattern(cls) == BemShape(cls, <<"__", "--">>)

isBemClass(cls) ==
    blockPattern(cls) \/ elementPattern(cls) \/ blockModPattern(cls) \/ elementModPattern(cls)

BemGrade(total) ==
    IF total >= 90 THEN "A"
    ELSE IF total >= 80 THEN "B"
    ELSE IF total >= 70 THEN "C"
    ELSE IF total >= 60 THEN "D"
    ELSE "F"

\* Ratios of the analysis are kept in thousandths (toFixed(3)).
calculateBemClassesScore(classAnalysis) ==
    LET averageTwice == classAnalysis.mismatch.coverageHtml + classAnalysis.mismatch.coverageCss
        coverage == IF averageTwice >= 1900 THEN 15
                    ELSE IF averageTwice >= 1700 THEN 12
                    ELSE IF averageTwice >= 1400 THEN 8
                    ELSE 4
        totalSelectors == classAnalysis.css.totalSelectors
        pure == classAnalysis.css.selectorForms.pureBemSelectors
        selectorForms == IF totalSelectors = 0 THEN 0
                         ELSE IF 100 * pure >= 80 * totalSelectors THEN 30
                         ELSE IF 100 * pure >= 60 * totalSelectors THEN 24
                         ELSE IF 100 * pure >= 40 * totalSelectors THEN 18
                         ELSE IF 100 * pure >= 25 * totalSelectors THEN 12
                         ELSE 6
        totalBlocks == classAnalysis.bem.blockStructure.totalBlocks
        structured == classAnalysis.bem.blockStructure.structuredBlocks
        structure == IF totalBlocks = 0 THEN 0
                     ELSE IF 100 * structured >= 80 * totalBlocks THEN 25
                     ELSE IF 100 * structured >= 60 * totalBlocks THEN 20
                     ELSE IF 100 * structured >= 40 * totalBlocks THEN 14
                     ELSE IF 100 * structured >= 25 * totalBlocks THEN 8
                     ELSE 3
        elements == classAnalysis.bem.counts.elements
        elementsRatio == IF totalBlocks = 0 THEN 0
                         ELSE IF elements >= 2 * totalBlocks /\ elements <= 6 * totalBlocks THEN 20
                         ELSE IF elements >= totalBlocks /\ elements < 2 * totalBlocks THEN 15
                         ELSE IF elements > 6 * totalBlocks /\ elements <= 10 * totalBlocks THEN 12
                         ELSE IF elements > 0 THEN 8
                         ELSE 0
        totalModifiersCount == classAnalysis.bem.counts.modifiers
                               + classAnalysis.bem.counts.elementModifiers
        modifiers == IF totalBlocks = 0 THEN 0
                     ELSE IF 2 * totalModifiersCount >= 3 * totalBlocks THEN 10
                     ELSE IF totalModifiersCount >= totalBlocks THEN 8
                     ELSE IF 2 * totalModifiersCount >= totalBlocks THEN 5
                     ELSE 2
        total == coverage + selectorForms + structure + elementsRatio + modifiers
        improvements ==
            (IF averageTwice < 1700
             THEN <<"Ameliorer la couverture entre HTML et CSS (reduire classes orphelines)">>
             ELSE <<>>)
         \o (IF totalSelectors > 0 /\ 100 * pure < 60 * totalSelectors
             THEN <<"Augmenter la part de selecteurs BEM purs et eviter les combinateurs/ID">>
             ELSE <<>>)
         \o (IF totalBlocks > 0 /\ 100 * structured < 60 * totalBlocks
             THEN <<"Structurer les blocs avec elements et modificateurs (eviter blocs orphelins)">>
             ELSE <<>>)
         \o (IF totalBlocks > 0 /\ ~(elements >= 2 * totalBlocks /\ elements <= 6 * totalBlocks)
             THEN <<"Ajuster le ratio elements par bloc (viser 2 a 6)">>
             ELSE <<>>)
         \o (IF totalBlocks > 0 /\ totalModifiersCount < totalBlocks
             THEN <<"Utiliser davantage de modificateurs pour exprimer les variantes">>
             ELSE <<>>)
    IN  [total |-> total,
         breakdown |-> [coverage |-> Criterion(coverage, 15),
                        selectorForms |-> Criterion(selectorForms, 30),
                        structure |-> Criterion(structure, 25),
                        elementsRatio |-> Criterion(elementsRatio, 20),
                        modifiers |-> Criterion(modifiers, 10)],
         grade |-> BemGrade(total),
         improvements |-> improvements]

\* htmlContents is a sequence of documents, a document the sequence of its
\* elements, an element the sequence of the names in its class attribute
\* (empty without the attribute).  uniqueClasses is kept as a set.
extractHtmlClasses(htmlContents) ==
    LET nodes == SelectSeq(ConcatAll(htmlContents), LAMBDA n : n # <<>>)
        assignments == ConcatAll(nodes)
        unique == {assignments[k] : k \in 1..Len(assignments)}
    IN  [totalClassAssignments |-> Len(assignments),
         nodesWithClasses |-> Len(nodes),
         uniqueClasses |-> unique,
         frequency |-> [c \in unique |->
                           Cardinality({k \in 1..Len(assignments) : assignments[k] = c})],
         maxClassesPerNode |-> IF nodes = <<>> THEN 0
                               ELSE CHOOSE m \in {Len(nodes[k]) : k \in 1..Len(nodes)} :
                                       \A k \in 1..Len(nodes) : Len(nodes[k]) <= m,
         highLoadNodes |-> Len(SelectSeq(nodes, LAMBDA n : Len(n) > 4))]

\* One selector of the stylesheet: the class names its text holds in order,
\* bare when the text without its pseudo-classes is a single ".name", complex
\* when it holds one of : > + [ ], and the counts of "#" and of type selectors.
Selector(classes, bare, complex, hasAncestor, ids, types, hasAttribute) ==
    [classes |-> classes, bare |-> bare, complex |-> complex,
     hasAncestor |-> hasAncestor, ids |-> ids, types |-> types,
     hasAttribute |-> hasAttribute]

isPureBemSelector(sel) ==
    /\ sel.classes # <<>>
    /\ \A k \in 1..Len(sel.classes) : isBemClass(sel.classes[k])
    /\ ~(Len(sel.classes) > 1)
    /\ sel.bare

\* The statistics of a stylesheet postcss parsed into the rules `selectors`.
parseCssClasses(selectors) ==
    LET n == Len(selectors)
        count(P(_)) == Len(SelectSeq(selectors, P))
        hasBem(sel) == \E k \in 1..Len(sel.classes) : isBemClass(sel.classes[k])
        spec(sel) == sel.ids * 100 + Len(sel.classes) * 10 + sel.types
        specs == [k \in 1..n |-> spec(selectors[k])]
        ratio(c) == IF n > 0 THEN RoundDiv(1000 * c, n) ELSE 0
        all == ConcatAll([k \in 1..n |-> selectors[k].classes])
        pure == count(LAMBDA s : hasBem(s) /\ isPureBemSelector(s))
        ancestors == count(LAMBDA s : s.hasAncestor)
        withId == count(LAMBDA s : s.ids > 0)
        withType == count(LAMBDA s : s.types > 0)
    IN  [uniqueClasses |-> {all[k] : k \in 1..Len(all)},
         totalSelectors |-> n,
         selectorsWithMultipleClasses |-> count(LAMBDA s : Len(s.classes) > 1),
         specificity |-> [average |-> IF n > 0 THEN RoundDiv(100 * SumSeq(specs), n) ELSE 0,
                          max |-> IF n > 0
                                  THEN CHOOSE m \in {specs[k] : k \in 1..n} :
                                           \A k \in 1..n : specs[k] <= m
                                  ELSE 0],
         complexSelectorsRatio |-> ratio(count(LAMBDA s : s.complex)),
         selectorForms |-> [bemSelectors |-> count(hasBem),
                            pureBemSelectors |-> pure,
                            pureBemSelectorsRatio |-> ratio(pure),
                            selectorsWithAncestor |-> ancestors,
                            selectorsWithId |-> withId,
                            selectorsWithType |-> withType,
                            selectorsWithAttribute |-> count(LAMBDA s : s.hasAttribute),
                            ancestorsRatio |-> ratio(ancestors),
                            withIdRatio |-> ratio(withId),
                            withTypeRatio |-> ratio(withType)]]

\* classify leaving a block modifier out of the registry.
classifyModifierUnregistered(cls) ==
    IF elementModPattern(cls) THEN "elementModifier"
    ELSE IF elementPattern(cls) THEN "element"
    ELSE IF blockPattern(cls) THEN "block"
    ELSE "other"

\* classify without its final `return "other"`.
classifyNoOther(cls) ==
    IF elementModPattern(cls) THEN "elementModifier"
    ELSE IF elementPattern(cls) THEN "element"
    ELSE IF blockModPattern(cls) THEN "modifier"
    ELSE IF blockPattern(cls) THEN "block"
    ELSE "undefined"

\* The category classify returns for a class (the block registry it fills on
\* the way is built in computeBemMetrics).
classify(cls) ==
    IF elementModPattern(cls) THEN "elementModifier"
    ELSE IF elementPattern(cls) THEN "element"
    ELSE IF blockModPattern(cls) THEN "modifier"
    ELSE IF blockPattern(cls) THEN "block"
    ELSE "other"

computeBemMetrics(htmlClasses, cssClasses) ==
    LET allClasses == htmlClasses \cup cssClasses
        categoryCount(c) == Cardinality({cls \in allClasses : classify(cls) = c})
        blockNames == {cls[1] : cls \in {c \in allClasses : classify(c) # "other"}}
        definedBlocks == {cls[1] : cls \in {c \in allClasses : classify(c) = "block"}}
        of(name, kinds) == {cls \in allClasses : classify(cls) \in kinds /\ cls[1] = name}
        blocks == [name \in blockNames |->
                     [elements |-> {SubSeq(cls, 1, 3) :
                                       cls \in of(name, {"element", "elementModifier"})},
                      modifiers |-> of(name, {"modifier"}),
                      elementModifiers |-> of(name, {"elementModifier"})]]
        hasStructure(name) == \/ blocks[name].elements # {}
                              \/ blocks[name].modifiers # {}
                              \/ blocks[name].elementModifiers # {}
        structured == Cardinality({name \in blockNames : hasStructure(name)})
        violations ==
            {[kind |-> "Modifier sans block", cls |-> cls] :
                cls \in {c \in allClasses : /\ blockModPattern(c)
                                            /\ ~blockPattern(<<c[1]>>)
                                            /\ <<c[1]>> \notin allClasses}}
            \cup
            {[kind |-> "Element sans block", cls |-> cls] :
                cls \in {c \in allClasses : /\ elementPattern(c)
                                            /\ ~blockPattern(<<c[1]>>)
                                            /\ <<c[1]>> \notin allClasses}}
        bemClassesCount == categoryCount("block") + categoryCount("element")
                           + categoryCount("modifier") + categoryCount("elementModifier")
    IN  [blocks |-> blocks,
         counts |-> [blocks |-> categoryCount("block"),
                     elements |-> categoryCount("element"),
                     modifiers |-> categoryCount("modifier"),
                     elementModifiers |-> categoryCount("elementModifier"),
                     other |-> categoryCount("other")],
         ratios |-> [bemClassesRatio |-> IF allClasses # {}
                                         THEN RoundDiv(1000 * bemClassesCount,
                                                       Cardinality(allClasses))
                                         ELSE 0,
                     structuredBlocksRatio |-> IF blockNames # {}
                                               THEN RoundDiv(1000 * structured,
                                                             Cardinality(blockNames))
                                               ELSE 0],
         depth |-> [max |-> IF categoryCount("elementModifier") > 0 THEN 3
                            ELSE IF categoryCount("element") + categoryCount("modifier") > 0 THEN 2
                            ELSE IF allClasses # {} THEN 1
                            ELSE 0],
         blockStructure |-> [totalBlocks |-> Cardinality(blockNames),
                             structuredBlocks |-> structured,
                             orphanBlocks |-> Cardinality(blockNames) - structured,
                             implicitBlocks |-> blockNames \ definedBlocks],
         violations |-> violations]

\* computeComparisons giving an empty class set the coverage 1.
computeComparisonsEmptyIsFull(htmlStats, cssStats) ==
    LET htmlSet == htmlStats.uniqueClasses
        cssSet == cssStats.uniqueClasses
        covered == Cardinality(htmlSet \cap cssSet)
        coverageCss == IF cssSet # {} THEN RoundDiv(1000 * covered, Cardinality(cssSet))
                       ELSE 1000
    IN  [unusedCssClasses |-> cssSet \ htmlSet,
         undefinedHtmlClasses |-> htmlSet \ cssSet,
         coverageHtml |-> IF htmlSet # {} THEN RoundDiv(1000 * covered, Cardinality(htmlSet))
                          ELSE 1000,
         coverageCss |-> coverageCss,
         cssEfficiency |-> coverageCss]

computeComparisons(htmlStats, cssStats) ==
    LET htmlSet == htmlStats.uniqueClasses
        cssSet == cssStats.uniqueClasses
        unusedCssClasses == cssSet \ htmlSet
        undefinedHtmlClasses == htmlSet \ cssSet
        coverageCss == IF cssSet # {}
                       THEN RoundDiv(1000 * (Cardinality(cssSet) - Cardinality(unusedCssClasses)),
                                     Cardinality(cssSet))
                       ELSE 0
    IN  [unusedCssClasses |-> unusedCssClasses,
         undefinedHtmlClasses |-> undefinedHtmlClasses,
         coverageHtml |-> IF htmlSet # {}
                          THEN RoundDiv(1000 * (Cardinality(htmlSet)
                                                - Cardinality(undefinedHtmlClasses)),
                                        Cardinality(htmlSet))
                          ELSE 0,
         coverageCss |-> coverageCss,
         cssEfficiency |-> coverageCss]

\* compiledCss is the sequence of the selectors of its rules and whether
\* postcss.parse accepts the text; a text it rejects (an unclosed block after
\* these rules, say) makes parseCssClasses throw, which is caught here.
performClassAnalysis(allHtmlContents, compiledCss) ==
    LET htmlStats == extractHtmlClasses(allHtmlContents)
        cssStats == IF compiledCss.parses
                    THEN parseCssClasses(compiledCss.selectors)
                    ELSE parseCssClasses(<<>>)
        analysis == [html |-> htmlStats,
                     css |-> cssStats,
                     mismatch |-> computeComparisons(htmlStats, cssStats),
                     bem |-> computeBemMetrics(htmlStats.uniqueClasses, cssStats.uniqueClasses)]
    IN  analysis @@ [score |-> [bem |-> calculateBemClassesScore(analysis)]]

SelectorSamples ==
    { Selector(<< <<"btn">> >>, TRUE, FALSE, FALSE, 0, 0, FALSE),
      Selector(<< <<"btn", "--", "primary">> >>, TRUE, TRUE, FALSE, 0, 0, FALSE),
      Selector(<< <<"card">>, <<"card", "__", "title">> >>, FALSE, FALSE, TRUE, 0, 0, FALSE),
      Selector(<< <<"btn", "__", "icon", "--", "lg">> >>, TRUE, FALSE, FALSE, 0, 0, FALSE),
      Selector(<< <<"card", "__", "title">> >>, TRUE, FALSE, FALSE, 0, 0, FALSE),
      Selector(<< <<"Btn">> >>, FALSE, FALSE, FALSE, 0, 1, FALSE),
      Selector(<< >>, FALSE, FALSE, FALSE, 1, 0, FALSE) }

HtmlSamples ==
    { << >>,
      << << << <<"btn">>, <<"btn", "--", "primary">> >>, << <<"btn", "__", "icon">> >> >> >>,
      << << << <<"card", "__", "title">>, <<"Btn">> >>, << >> >> >>,
      << << << <<"card">> >>, << <<"card", "--", "wide">> >> >>,
         << << <<"btn">> >>, << <<"btn">> >> >> >>,
      << << << <<"btn">>, <<"btn", "--", "primary">>, <<"btn", "__", "icon">>,
               <<"btn", "__", "icon", "--", "lg">>, <<"card">> >> >> >>,
      << << << <<"card", "--", "wide">> >> >> >>,
      << << << <<"btn">>, <<"btn", "__", "icon">>, <<"btn", "--", "primary">>,
               <<"card">>, <<"unused-thing">> >> >> >> }

\* Most rules of a stylesheet handed to performClassAnalysis.
MaxSelectors == 2

PerformClassAnalysis ==
    /\ call = "performClassAnalysis"
    /\ pc = "call"
    /\ ret' = Returned(performClassAnalysis(arg.html, arg.css))
    /\ pc' = "done"
    /\ UNCHANGED <<call, arg, rvVars, impVars, ioVars>>

(***************************************************************************)
(* cssTypographyAnalyzer                                                   *)
(***************************************************************************)
\* A declaration of a rule: for font-family, value is the font stack and
\* unresolved is TRUE when resolveVariable leaves a var() without a usable
\* inline fallback; for font-size and line-height, value is <<text>>.
TypoDecl(prop, val, unresolved) == [prop |-> prop, value |-> val, unresolved |-> unresolved]

TypoRule(global, decls) == [global |-> global, decls |-> decls]

RuleSamples ==
    { TypoRule(TRUE, << TypoDecl("font-family", <<"Arial", "sans-serif">>, FALSE),
                        TypoDecl("font-size", <<"16px">>, FALSE),
                        TypoDecl("line-height", <<"1.5">>, FALSE) >>),
      TypoRule(FALSE, << TypoDecl("font-family", <<"Georgia">>, FALSE),
                         TypoDecl("font-size", <<"2rem">>, FALSE) >>),
      TypoRule(FALSE, << TypoDecl("line-height", <<"24px">>, FALSE),
                         TypoDecl("line-height", <<"1.4">>, FALSE) >>),
      TypoRule(FALSE, << TypoDecl("font-size", <<"1.5em">>, FALSE),
                         TypoDecl("line-height", <<"120%">>, FALSE) >>),
      TypoRule(FALSE, << TypoDecl("font-family", <<"arial", "monospace">>, FALSE) >>),
      TypoRule(FALSE, << TypoDecl("font-family", <<"var(--undeclared)">>, TRUE),
                         TypoDecl("font-size", <<"12px">>, FALSE) >>),
      TypoRule(TRUE, << TypoDecl("font-family", <<"var(--undeclared)">>, TRUE) >>) }

normalizeFontFamily(fontFamily) ==
    IF fontFamily = "arial" THEN "Arial" ELSE fontFamily

\* The unit the regular expressions of the unit analyses find at the end of a
\* value of the samples.
ValueUnit(text) ==
    CASE text \in {"16px", "12px", "24px"} -> "px"
      [] text = "2rem" -> "rem"
      [] text = "1.5em" -> "em"
      [] text = "120%" -> "percent"
      [] text \in {"1.5", "1.4"} -> "unitless"
      [] OTHER -> "other"

\* The <link> tags of the page naming a font provider, and the font
\* statements of the raw stylesheet.
LinkSamples ==
    { << >>,
      << [provider |-> "Google Fonts", stylesheet |-> TRUE] >>,
      << [provider |-> "Unknown", stylesheet |-> FALSE],
         [provider |-> "Google Fonts", stylesheet |-> TRUE] >> }

FontStatementSamples ==
    { << >>,
      << [kind |-> "import", provider |-> "Google Fonts"],
         [kind |-> "import", provider |-> "Google Fonts"],
         [kind |-> "import", provider |-> "Google Fonts"] >>,
      << [kind |-> "font-face", provider |-> "Custom"] >> }

detectWebfontsInHtml(htmlContent) ==
    LET links == SelectSeq(htmlContent, LAMBDA l : l.stylesheet)
    IN  [k \in 1..Len(links) |-> [source |-> "html-link", provider |-> links[k].provider]]

detectWebfontsInCss(cssContent) ==
    LET imports_ == SelectSeq(cssContent, LAMBDA s : s.kind = "import")
        faces == SelectSeq(cssContent, LAMBDA s : s.kind = "font-face")
    IN  [k \in 1..Len(imports_) |-> [source |-> "css-import", provider |-> imports_[k].provider]]
        \o [k \in 1..Len(faces) |-> [source |-> "css-font-face", provider |-> "Custom"]]

\* The grades with the D threshold lowered to 50.
TypographyGradeLenient(total) ==
    IF total >= 90 THEN "A"
    ELSE IF total >= 80 THEN "B"
    ELSE IF total >= 70 THEN "C"
    ELSE IF total >= 50 THEN "D"
    ELSE "F"

TypographyGrade(total) ==
    IF total >= 90 THEN "A"
    ELSE IF total >= 80 THEN "B"
    ELSE IF total >= 70 THEN "C"
    ELSE IF total >= 60 THEN "D"
    ELSE "F"

\* fontFamilies maps a family (or "_orphan_sizes") to its record; ratios of
\* the summary are in thousandths.
analyzeFontSizeUnits(fontFamilies) ==
    LET entries == UNION {{<<f, s>> : s \in fontFamilies[f].sizes} : f \in DOMAIN fontFamilies}
        relative == {p \in entries : ValueUnit(p[2]) \in {"rem", "em", "percent"}}
    IN  [totalSizes |-> Cardinality(entries), relativeUnits |-> Cardinality(relative)]

\* lineHeightValues maps a value to the number of its declarations.
analyzeLineHeightUnits(lineHeightValues) ==
    [total |-> SumOver(DOMAIN lineHeightValues, lineHeightValues),
     proportionalUnits |->
        SumOver({v \in DOMAIN lineHeightValues : ValueUnit(v) \in {"unitless", "percent"}},
                lineHeightValues)]

calculateTypographyScore(typographyData, summary, webfonts, fontFamilies) ==
    LET uniqueProviders == Cardinality({webfonts[k].provider : k \in 1..Len(webfonts)})
        webfontsScore ==
            IF Len(webfonts) > 0
            THEN 5
                 + (IF \E k \in 1..Len(webfonts) :
                          webfonts[k].source \in {"html-link", "css-import"}
                    THEN 5 ELSE 0)
                 + (IF Len(webfonts) <= uniqueProviders * 2 THEN 5 ELSE 0)
            ELSE 0
        fallbacks == RoundDiv(summary.fallbackCoverage * 20, 1000)
        inheritance == (IF summary.hasGlobalFontFamily THEN 10 ELSE 0)
                       + RoundDiv(summary.inheritanceQuality * 15, 1000)
        unitsAnalysis == analyzeFontSizeUnits(fontFamilies)
        withSizes == {f \in DOMAIN fontFamilies : fontFamilies[f].sizes # {}}
        variations == SumOver(withSizes, [f \in withSizes |-> Cardinality(fontFamilies[f].sizes)])
        families == Cardinality(withSizes)
        \* avgSizeVariations is variations / families (0 without families)
        sizes == (IF families > 0 /\ variations >= 2 * families /\ variations <= 4 * families
                  THEN 10
                  ELSE IF families > 0 /\ variations >= 5 * families /\ variations <= 7 * families
                  THEN 7
                  ELSE IF families > 0 /\ variations >= 8 * families /\ variations <= 10 * families
                  THEN 4
                  ELSE 0)
                 + (IF unitsAnalysis.totalSizes > 0
                    THEN RoundDiv(unitsAnalysis.relativeUnits * 10, unitsAnalysis.totalSizes)
                    ELSE 0)
        fontSizes == summary.totalFontSizeDeclarations
        lineHeightDecls == summary.totalLineHeightDeclarations
        units == summary.lineHeightUnits
        lineHeights == (IF fontSizes > 0 THEN RoundDiv(lineHeightDecls * 10, fontSizes) ELSE 0)
                       + (IF units.total > 0
                          THEN RoundDiv(units.proportionalUnits * 5, units.total)
                          ELSE 0)
        bestPractices == IF ~summary.excessiveFontFamilyDeclarations THEN 5 ELSE 0
        total == webfontsScore + fallbacks + inheritance + sizes + lineHeights + bestPractices
        improvements ==
            (IF webfontsScore < 15
             THEN <<"Utiliser des webfonts pour ameliorer la typographie">> ELSE <<>>)
         \o (IF fallbacks < 16
             THEN <<"Ajouter des polices de secours avec familles generiques">> ELSE <<>>)
         \o (IF inheritance < 20
             THEN <<"Definir une police globale et reduire les redeclarations">> ELSE <<>>)
         \o (IF 2 * unitsAnalysis.relativeUnits < unitsAnalysis.totalSizes
                \/ unitsAnalysis.totalSizes = 0
             THEN <<"Privilegier rem/em au lieu de px pour les font-size">> ELSE <<>>)
         \o (IF fontSizes = 0 \/ 10 * lineHeightDecls < 7 * fontSizes
             THEN <<"Definir des line-heights pour toutes les font-size">> ELSE <<>>)
         \o (IF units.total = 0 \/ 10 * units.proportionalUnits < 7 * units.total
             THEN <<"Privilegier les valeurs proportionnelles (unitless ou %) pour line-height">>
             ELSE <<>>)
         \o (IF families > 0 /\ variations > 7 * families
             THEN <<"Reduire le nombre de variations de tailles de police">> ELSE <<>>)
    IN  [total |-> total,
         breakdown |-> [webfonts |-> Criterion(webfontsScore, 15),
                        fallbacks |-> Criterion(fallbacks, 20),
                        inheritance |-> Criterion(inheritance, 25),
                        sizes |-> Criterion(sizes, 20),
                        lineHeights |-> Criterion(lineHeights, 15),
                        bestPractices |-> Criterion(bestPractices, 5)],
         grade |-> TypographyGrade(total),
         improvements |-> improvements]

\* compiledCss is the sequence of the rules postcss.parse yields for the
\* text; the caller of this operator has a text the parser accepts.
analyzeTypography(htmlContent, cssRawContent, compiledCss) ==
    LET allWebfonts == detectWebfontsInHtml(htmlContent) \o detectWebfontsInCss(cssRawContent)
        rules == compiledCss
        R == 1..Len(rules)
        declsOf(r, prop) == SelectSeq(rules[r].decls, LAMBDA d : d.prop = prop)
        resolvedOf(r, prop) == SelectSeq(declsOf(r, prop), LAMBDA d : ~d.unresolved)
        family(d) == normalizeFontFamily(d.value[1])
        hasGeneric(d) == \E k \in 2..Len(d.value) :
                            d.value[k] \in {"serif", "sans-serif", "monospace",
                                            "cursive", "fantasy", "system-ui"}
        \* the values a rule ends with: "" stands for null
        currentFontFamily(r) == LET ds == resolvedOf(r, "font-family")
                                IN  IF ds = <<>> THEN "" ELSE family(ds[Len(ds)])
        lastValue(r, prop) == LET ds == declsOf(r, prop)
                              IN  IF ds = <<>> \/ ds[Len(ds)].unresolved THEN ""
                                  ELSE ds[Len(ds)].value[1]
        familyDecls == ConcatAll([r \in R |-> resolvedOf(r, "font-family")])
        sizeDecls == ConcatAll([r \in R |-> resolvedOf(r, "font-size")])
        lineHeightDecls == ConcatAll([r \in R |-> resolvedOf(r, "line-height")])
        totalFontFamilyDeclarations == SumSeq([r \in R |-> Len(declsOf(r, "font-family"))])
        hasGlobalFontFamily == \E r \in R : rules[r].global /\ declsOf(r, "font-family") # <<>>
        names == {family(familyDecls[k]) : k \in 1..Len(familyDecls)}
        declsFor(f) == SelectSeq(familyDecls, LAMBDA d : family(d) = f)
        familyData(f) ==
            [declarationCount |-> Len(declsFor(f)),
             isGlobal |-> \E r \in R : /\ rules[r].global
                                       /\ \E k \in 1..Len(rules[r].decls) :
                                             /\ rules[r].decls[k].prop = "font-family"
                                             /\ ~rules[r].decls[k].unresolved
                                             /\ family(rules[r].decls[k]) = f,
             fallbacks |-> UNION {{d.value[k] : k \in 2..Len(d.value)} :
                                     d \in {declsFor(f)[i] : i \in 1..Len(declsFor(f))}},
             hasGenericFallback |-> \E i \in 1..Len(declsFor(f)) : hasGeneric(declsFor(f)[i]),
             sizes |-> {lastValue(r, "font-size") :
                           r \in {q \in R : /\ currentFontFamily(q) = f
                                            /\ lastValue(q, "font-size") # ""}}]
        orphanData == [declarationCount |-> 0, isGlobal |-> FALSE, fallbacks |-> {},
                       hasGenericFallback |-> FALSE,
                       sizes |-> {sizeDecls[k].value[1] : k \in 1..Len(sizeDecls)}]
        fontFamiliesOutput == [f \in names |-> familyData(f)]
        fontFamilies == IF sizeDecls = <<>> THEN fontFamiliesOutput
                        ELSE fontFamiliesOutput @@ [f \in {"_orphan_sizes"} |-> orphanData]
        totalFamilies == Cardinality(names)
        globalFamilies == Cardinality({f \in names : familyData(f).isGlobal})
        withoutGeneric == Cardinality({f \in names : ~familyData(f).hasGenericFallback})
        lineHeightValues == {lineHeightDecls[k].value[1] : k \in 1..Len(lineHeightDecls)}
        allLineHeights == [v \in lineHeightValues |->
                              Len(SelectSeq(lineHeightDecls, LAMBDA d : d.value[1] = v))]
        summary ==
            [totalFamilies |-> totalFamilies,
             totalFontFamilyDeclarations |-> totalFontFamilyDeclarations,
             totalFontSizeDeclarations |-> Len(sizeDecls),
             totalLineHeightDeclarations |-> Len(lineHeightDecls),
             hasGlobalFontFamily |-> hasGlobalFontFamily,
             globalFamilies |-> globalFamilies,
             inheritanceQuality |->
                 IF hasGlobalFontFamily
                 THEN IF totalFontFamilyDeclarations > 0
                      THEN 1000 - RoundDiv(1000 * (totalFontFamilyDeclarations - globalFamilies),
                                           totalFontFamilyDeclarations)
                      ELSE 1000
                 ELSE 0,
             familiesWithFallbacks |-> Cardinality({f \in names : familyData(f).fallbacks # {}}),
             familiesWithoutGenericFallback |-> withoutGeneric,
             fallbackCoverage |-> IF totalFamilies > 0
                                  THEN RoundDiv(1000 * (totalFamilies - withoutGeneric),
                                                totalFamilies)
                                  ELSE 0,
             excessiveFontFamilyDeclarations |-> totalFontFamilyDeclarations > totalFamilies * 2,
             fontSizeUnits |-> analyzeFontSizeUnits(fontFamilies),
             lineHeightUnits |-> analyzeLineHeightUnits(allLineHeights)]
    IN  [webfonts |-> [detected |-> Len(allWebfonts) > 0,
                       count |-> Len(allWebfonts),
                       details |-> allWebfonts],
         fontFamilies |-> fontFamiliesOutput,
         summary |-> summary,
         recommendations |-> [shouldUseGlobalFontFamily |-> ~hasGlobalFontFamily,
                              missingLineHeights |-> Len(sizeDecls) > Len(lineHeightDecls),
                              missingGenericFallbacks |-> withoutGeneric > 0],
         score |-> calculateTypographyScore(
                      [fontFamilies |-> fontFamilies], summary, allWebfonts, fontFamilies)]

\* Most rules of a stylesheet handed to analyzeTypography.
MaxRules == 2

\* postcss.parse is called outside any try block: the CssSyntaxError it
\* throws for a text it rejects leaves analyzeTypography.
AnalyzeTypography ==
    /\ call = "analyzeTypography"
    /\ pc = "call"
    /\ ret' = IF arg.compiledCss.parses
              THEN Returned(analyzeTypography(arg.htmlContent, arg.cssRawContent,
                                              arg.compiledCss.rules))
              ELSE Threw("CssSyntaxError")
    /\ pc' = "done"
    /\ UNCHANGED <<call, arg, rvVars, impVars, ioVars>>

(***************************************************************************)
(* The analyzers: one call of one entry point on one input                 *)
(***************************************************************************)
InitCall(name, inputs) ==
    /\ call = name
    /\ arg \in inputs
    /\ pc = "call"
    /\ ret = NoReturn
    /\ imports = <<>>
    /\ organizationMetrics = NoMetrics
    /\ response = NoResponse
    /\ value = <<>>
    /\ cssVariables = NullMap
    /\ resolved = <<>>
    /\ iterations = 0
    /\ rvPc = "idle"

Init ==
    /\ IoIdle
    /\ \/ InitCall("analyzeImages", ImagesInputs)
       \/ InitCall("synthesizeImagesAnalysis", PagesInputs)
       \/ InitCall("analyzeColors", ColorsInputs)
       \* baseUrlOk: new URL(importPath, baseUrl) succeeds for relative paths
       \/ InitCall("analyzeImports",
                   [css : SeqsUpTo(Statements, MaxStatements), baseUrlOk : BOOLEAN])
       \/ InitCall("calculateImportsScore", ScorerInputs)
       \/ InitCall("analyzeCustomProperties", SeqsUpTo(DeclSamples, MaxDecls))
       \* the stylesheets of up to MaxSelectors rules, and
       \* `.btn{} .btn__icon{} .btn--primary{} .card{}`
       \/ InitCall("performClassAnalysis",
                   [html : HtmlSamples,
                    css : [parses : BOOLEAN,
                           selectors : SeqsUpTo(SelectorSamples, MaxSelectors) \cup
                               {[k \in 1..4 |->
                                    Selector(<< << <<"btn">>, <<"btn", "__", "icon">>,
                                                   <<"btn", "--", "primary">>, <<"card">> >>[k] >>,
                                             TRUE, FALSE, FALSE, 0, 0, FALSE)]}]])
       \/ InitCall("analyzeTypography",
                   [htmlContent : LinkSamples,
                    cssRawContent : FontStatementSamples,
                    compiledCss : [parses : BOOLEAN,
                                   rules : SeqsUpTo(RuleSamples, MaxRules)]])

Next ==
    \/ AnalyzeImages
    \/ SynthesizeImagesAnalysis
    \/ AnalyzeColors
    \/ AnalyzeImportsEnter
    \/ AnalyzeImportsProbe
    \/ AnalyzeImportsReturn
    \/ CalculateImportsScore
    \/ AnalyzeCustomProperties
    \/ PerformClassAnalysis
    \/ AnalyzeTypography

Spec == Init /\ [][Next]_vars

(***************************************************************************)
(* inlineAllImports                                                        *)
(***************************************************************************)
\* The files of a site.  A stylesheet is a sequence of pieces of text: Piece
\* "import" is an `@import "url";` statement (outside any comment), "rules"
\* the rules of the file at url, "inlined" the comment `Inlined from url`
\* and "failed" the comment `IMPORT FAILED: "url"`.
Urls == {"main.css", "a.css", "b.css"}

Piece(kind, url) == [kind |-> kind, url |-> url]

\* The sites: each file starts with the @import statements of one of these
\* lists and ends with its own rules.
Sites ==
    [Urls -> {<<>>, <<"a.css">>, <<"b.css">>, <<"main.css">>,
              <<"a.css", "b.css">>, <<"b.css", "b.css">>, <<"b.css", "a.css">>}]

\* response.data of a successful GET of url.
FileContent(site, url) ==
    [k \in 1..Len(site[url]) |-> Piece("import", site[url][k])]
        \o <<Piece("rules", url)>>

\* The matches of importRegex in a text, in order.
InlineMatches(cssContent) == SelectSeq(cssContent, LAMBDA p : p.kind = "import")

\* result.replace(fullMatch, replacement): a string pattern replaces the
\* first occurrence only.
ReplaceFirst(text, piece, replacement) ==
    IF \E k \in 1..Len(text) : text[k] = piece
    THEN LET i == CHOOSE k \in 1..Len(text) :
                     text[k] = piece /\ \A j \in 1..(k - 1) : text[j] # piece
         IN  SubSeq(text, 1, i - 1) \o replacement \o SubSeq(text, i + 1, Len(text))
    ELSE text

\* A call of inlineAllImports: `entered` is FALSE until the test of
\* processedUrls is made, `done` counts the matches the loop has handled.
Frame(cssContent, currentUrl) ==
    [cssContent |-> cssContent, currentUrl |-> currentUrl, entered |-> FALSE,
     done |-> 0, result |-> cssContent]

\* The innermost call gives `text` back: the awaiting caller replaces the
\* @import it was handling by the comment and the text and goes on with its
\* loop; the outermost call gives it to compileCSS.
InlineGiveBack(text) ==
    IF Len(stack) = 1
    THEN /\ stack' = <<>>
         /\ ret' = Returned(text)
         /\ pc' = "done"
    ELSE LET caller == stack[Len(stack) - 1]
             importUrl == stack[Len(stack)].currentUrl
         IN  /\ stack' = [SubSeq(stack, 1, Len(stack) - 1) EXCEPT ![Len(stack) - 1] =
                            [caller EXCEPT
                                !.done = caller.done + 1,
                                !.result = ReplaceFirst(caller.result,
                                               Piece("import", importUrl),
                                               <<Piece("inlined", importUrl)>> \o text)]]
             /\ UNCHANGED <<ret, pc>>

\* The entry of a call without the test of processedUrls.
InlineEnterAlways ==
    /\ call = "inlineAllImports"
    /\ stack # <<>>
    /\ ~stack[Len(stack)].entered
    /\ processedUrls' = processedUrls \cup {stack[Len(stack)].currentUrl}
    /\ stack' = [stack EXCEPT ![Len(stack)].entered = TRUE]
    /\ UNCHANGED <<ret, pc, call, arg, errors, rvVars, impVars, visited, requests, calls, files>>

\* The entry of a call: a URL already in processedUrls gives "" back at once,
\* another one is added to the set.
InlineEnter ==
    /\ call = "inlineAllImports"
    /\ stack # <<>>
    /\ ~stack[Len(stack)].entered
    /\ IF stack[Len(stack)].currentUrl \in processedUrls
       THEN InlineGiveBack(<<>>) /\ UNCHANGED processedUrls
       ELSE /\ processedUrls' = processedUrls \cup {stack[Len(stack)].currentUrl}
            /\ stack' = [stack EXCEPT ![Len(stack)].entered = TRUE]
            /\ UNCHANGED <<ret, pc>>
    /\ UNCHANGED <<call, arg, errors, rvVars, impVars, visited, requests, calls, files>>

\* One pass of the while loop up to the end of `await axios.get`: the GET
\* succeeds and the recursive call is made, or it fails (status, network,
\* timeout) and the catch block records the error and writes the comment.
InlineGet ==
    /\ call = "inlineAllImports"
    /\ stack # <<>>
    /\ LET top == stack[Len(stack)]
           matches == InlineMatches(top.cssContent)
       IN  /\ top.entered
           /\ top.done < Len(matches)
           /\ LET importUrl == matches[top.done + 1].url
              IN  \/ /\ stack' = Append(stack, Frame(FileContent(arg, importUrl), importUrl))
                     /\ UNCHANGED errors
                  \/ /\ errors' = Append(errors, [importPath |-> importUrl,
                                                  resolvedUrl |-> importUrl,
                                                  sourceFile |-> top.currentUrl])
                     /\ stack' = [stack EXCEPT ![Len(stack)] =
                                     [top EXCEPT
                                         !.done = top.done + 1,
                                         !.result = ReplaceFirst(top.result,
                                                        Piece("import", importUrl),
                                                        <<Piece("failed", importUrl)>>)]]
    /\ UNCHANGED <<ret, pc, call, arg, processedUrls, rvVars, impVars, visited, requests, calls, files>>

\* The loop finds no further match: the call returns `result`.
InlineReturn ==
    /\ call = "inlineAllImports"
    /\ stack # <<>>
    /\ stack[Len(stack)].entered
    /\ stack[Len(stack)].done = Len(InlineMatches(stack[Len(stack)].cssContent))
    /\ InlineGiveBack(stack[Len(stack)].result)
    /\ UNCHANGED <<call, arg, processedUrls, errors, rvVars, impVars, visited, requests, calls, files>>

\* compileCSS calls inlineAllImports(cssContent, cssUrl, new Set(), []) with
\* the text it fetched at main.css.
InitInline ==
    /\ InitCall("inlineAllImports", Sites)
    /\ processedUrls = {}
    /\ errors = <<>>
    /\ stack = <<Frame(FileContent(arg, "main.css"), "main.css")>>
    /\ visited = {}
    /\ requests = <<>>
    /\ calls = <<>>
    /\ files = <<>>

NextInline == InlineEnter \/ InlineGet \/ InlineReturn

\* Every await of the function settles (axios.get has a 3000 ms timeout) and
\* the event loop runs the continuation.
SpecInline == InitInline /\ [][NextInline]_vars /\ WF_vars(NextInline)

(***************************************************************************)
(* fetchAndCompileCss                                                      *)
(***************************************************************************)
\* cssContent.replace(importRegex, importedCss): importRegex carries the g
\* flag, so every @import statement of the text is replaced.
RECURSIVE ReplaceAll(_, _)
ReplaceAll(cssContent, importedCss) ==
    IF cssContent = <<>> THEN <<>>
    ELSE (IF Head(cssContent).kind = "import" THEN importedCss ELSE <<Head(cssContent)>>)
            \o ReplaceAll(Tail(cssContent), importedCss)

\* importedCssContents.forEach((importedCss) => cssContent = cssContent.replace(...))
RECURSIVE ReplaceEach(_, _)
ReplaceEach(cssContent, importedCssContents) ==
    IF importedCssContents = <<>> THEN cssContent
    ELSE ReplaceEach(ReplaceAll(cssContent, Head(importedCssContents)),
                     Tail(importedCssContents))

\* The synchronous start of a call without the test of visited.
FetchStartUnchecked(state, url, parent) ==
    [calls |-> Append(state.calls, [url |-> url, parent |-> parent, at |-> "get",
                                    cssContent |-> <<>>, css |-> <<>>,
                                    outcome |-> "none"]),
     visited |-> state.visited \cup {url},
     requests |-> Append(state.requests, url)]

\* The synchronous start of a call made by `parent` (0 for the caller of the
\* service): a visited URL resolves to "" at once, another one is added to
\* visited and requested with axios.get.  The state is the calls made so
\* far (each with the outcome of its GET), visited and the requests sent.
FetchStart(state, url, parent) ==
    IF url \in state.visited
    THEN [state EXCEPT !.calls = Append(@, [url |-> url, parent |-> parent,
                                            at |-> "resolved",
                                            cssContent |-> <<>>, css |-> <<>>,
                                    outcome |-> "none"])]
    ELSE [calls |-> Append(state.calls, [url |-> url, parent |-> parent, at |-> "get",
                                         cssContent |-> <<>>, css |-> <<>>,
                                    outcome |-> "none"]),
          visited |-> state.visited \cup {url},
          requests |-> Append(state.requests, url)]

\* The while loop over the matches: one recursive call per @import, each
\* started before the next match is looked for.
RECURSIVE FetchStartAll(_, _, _)
FetchStartAll(state, urls, parent) ==
    IF urls = <<>> THEN state
    ELSE FetchStartAll(FetchStart(state, Head(urls), parent), Tail(urls), parent)

\* The outermost call resolves: its caller receives the text.
FetchSettle(c, css) ==
    IF c = 1 THEN ret' = Returned(css) /\ pc' = "done"
    ELSE UNCHANGED <<ret, pc>>

\* fetchAndCompileCss(url) is called with a new Set.
FetchCall ==
    /\ call = "fetchAndCompileCss"
    /\ pc = "call"
    /\ calls = <<>>
    /\ LET state == FetchStart([calls |-> <<>>, visited |-> {}, requests |-> <<>>],
                               "main.css", 0)
       IN  /\ calls' = state.calls
           /\ visited' = state.visited
           /\ requests' = state.requests
    /\ pc' = "running"
    /\ UNCHANGED <<call, arg, ret, rvVars, impVars, processedUrls, errors, stack, files>>

\* The GET of a call settles.  A response hands the text to the loop, which
\* starts the recursive calls, and the call awaits Promise.all; a rejection
\* is caught and the call resolves to "".
FetchResponse ==
    /\ call = "fetchAndCompileCss"
    /\ pc = "running"
    /\ \E c \in 1..Len(calls) :
          /\ calls[c].at = "get"
          /\ \/ LET state == FetchStartAll(
                                 [calls |-> [calls EXCEPT ![c].at = "all", ![c].outcome = "ok",
                                                 ![c].cssContent = FileContent(arg, calls[c].url)],
                                  visited |-> visited, requests |-> requests],
                                 arg[calls[c].url], c)
                IN  /\ calls' = state.calls
                    /\ visited' = state.visited
                    /\ requests' = state.requests
                    /\ UNCHANGED <<ret, pc>>
             \/ /\ calls' = [calls EXCEPT ![c].at = "resolved", ![c].outcome = "error",
                                           ![c].css = <<>>]
                /\ FetchSettle(c, <<>>)
                /\ UNCHANGED <<visited, requests>>
    /\ UNCHANGED <<call, arg, rvVars, impVars, processedUrls, errors, stack, files>>

\* Promise.all of a call resolves once all its recursive calls have: the
\* imports are replaced and the text is returned.
FetchJoin ==
    /\ call = "fetchAndCompileCss"
    /\ pc = "running"
    /\ \E c \in 1..Len(calls) :
          /\ calls[c].at = "all"
          /\ LET children == SelectSeq([k \in 1..Len(calls) |-> k],
                                       LAMBDA k : calls[k].parent = c)
                 css == ReplaceEach(calls[c].cssContent,
                                    [k \in 1..Len(children) |-> calls[children[k]].css])
             IN  /\ \A k \in 1..Len(children) : calls[children[k]].at = "resolved"
                 /\ calls' = [calls EXCEPT ![c].at = "resolved", ![c].css = css]
                 /\ FetchSettle(c, css)
    /\ UNCHANGED <<call, arg, visited, requests, rvVars, impVars, processedUrls, errors, stack, files>>

InitFetch ==
    /\ InitCall("fetchAndCompileCss", Sites)
    /\ IoIdle

NextFetch == FetchCall \/ FetchResponse \/ FetchJoin

\* Every request settles and the event loop runs each continuation.
SpecFetch == InitFetch /\ [][NextFetch]_vars /\ WF_vars(NextFetch)

(***************************************************************************)
(* compileCSS: the scan requests served at the same time share the file    *)
(* system.  files maps the paths that exist to their content.              *)
(***************************************************************************)
MaxCalls == 2

\* path.resolve("temp.css"): the same path for every call of the process.
tempFilePath == "temp.css"

\* cssContent once the stylesheet is fetched and inlineRemoteCSS has run.
InlinedSamples ==
    { <<Piece("rules", "a.css")>>,
      <<Piece("comment", "b.css"), Piece("rules", "b.css")>>,
      <<Piece("rules", "a.css"), Piece("comment", "a.css"), Piece("rules", "b.css")>> }

\* postcss([postcssImport(), cssnano()]).process(cssContent, ...).css: the
\* text given in memory, minified (cssnano's default preset discards the
\* comments); the file at `from` is not read.
compiledCss(cssContent) == SelectSeq(cssContent, LAMBDA p : p.kind # "comment")

\* fs.writeFile(path, data) creates the file or replaces its content.
writeFile(fs, path, data) == [p \in DOMAIN fs \cup {path} |-> IF p = path THEN data ELSE fs[p]]

\* fs.unlink(path) of an existing file.
unlink(fs, path) == [p \in DOMAIN fs \ {path} |-> fs[p]]

\* All the calls of the run have been made and have settled.
Settled(cs, total) ==
    /\ Len(cs) = total
    /\ \A c \in 1..Len(cs) : cs[c].result.status # "pending"

\* A scan request arrives and its compileCSS call reaches the writeFile.
CompileCall ==
    /\ call = "compileCSS"
    /\ Len(calls) < Len(arg)
    /\ calls' = Append(calls, [cssContent |-> arg[Len(calls) + 1], at |-> "writeFile",
                               css |-> <<>>, result |-> NoReturn])
    /\ pc' = "running"
    /\ UNCHANGED <<call, arg, ret, files, rvVars, impVars, processedUrls, errors, stack, visited, requests>>

\* await fs.writeFile(tempFilePath, cssContent)
CompileWrite ==
    /\ call = "compileCSS"
    /\ \E c \in 1..Len(calls) :
          /\ calls[c].at = "writeFile"
          /\ files' = writeFile(files, tempFilePath, calls[c].cssContent)
          /\ calls' = [calls EXCEPT ![c].at = "process"]
    /\ UNCHANGED <<call, arg, pc, ret, rvVars, impVars, processedUrls, errors, stack, visited, requests>>

\* await postcss([...]).process(cssContent, { from: tempFilePath })
CompileProcess ==
    /\ call = "compileCSS"
    /\ \E c \in 1..Len(calls) :
          /\ calls[c].at = "process"
          /\ calls' = [calls EXCEPT ![c].at = "unlink",
                                    ![c].css = compiledCss(calls[c].cssContent)]
    /\ UNCHANGED <<call, arg, pc, ret, files, rvVars, impVars, processedUrls, errors, stack, visited, requests>>

\* await fs.unlink(tempFilePath); return compiledCss.css.  unlink rejects
\* with ENOENT when the file does not exist, and compileCSS with it.
CompileUnlink ==
    /\ call = "compileCSS"
    /\ \E c \in 1..Len(calls) :
          /\ calls[c].at = "unlink"
          /\ LET after == [calls EXCEPT ![c].at = "settled",
                                        ![c].result =
                                            IF tempFilePath \in DOMAIN files
                                            THEN Returned(calls[c].css)
                                            ELSE Threw("ENOENT")]
             IN  /\ files' = unlink(files, tempFilePath)
                 /\ calls' = after
                 /\ pc' = IF Settled(after, Len(arg)) THEN "done" ELSE pc
    /\ UNCHANGED <<call, arg, ret, rvVars, impVars, processedUrls, errors, stack, visited, requests>>

InitCompile ==
    /\ InitCall("compileCSS", [1..MaxCalls -> InlinedSamples])
    /\ IoIdle

NextCompile == CompileCall \/ CompileWrite \/ CompileProcess \/ CompileUnlink

SpecCompile == InitCompile /\ [][NextCompile]_vars

(***************************************************************************)
(* validateHTML: the calls in flight share the directory of temporary      *)
(* files and the clock.                                                    *)
(***************************************************************************)
\* htmlContent: a page and the types of the messages the validator has for it.
Html(page, messages) == [page |-> page, messages |-> messages]

HtmlDocuments == { Html("index.html", <<"info">>),
                 Html("about.html", <<"error", "info", "error">>) }

NoHtml == Html("", <<>>)

\* join(tmpdir(), `validate-${Date.now()}.html`)
tempFile(now) == <<"validate", now>>

\* stderr of the validator run on a path, parsed: the messages of the
\* document found there, or one non-document message when there is no file.
parsedResult(fs, path) ==
    IF path \in DOMAIN fs
    THEN [k \in 1..Len(fs[path].messages) |->
             [type |-> fs[path].messages[k], page |-> fs[path].page]]
    ELSE << [type |-> "non-document-error", page |-> ""] >>

\* The array of the catch block.
FailedToValidate == << [type |-> "error", message |-> "Failed to validate HTML"] >>

\* validateHTML(htmlContent) is called: tempFile is named after the clock,
\* which has not moved or has moved on since the previous call.
ValidateCall ==
    /\ call = "validateHTML"
    /\ Len(calls) < Len(arg)
    /\ \E now \in (IF calls = <<>> THEN {1}
                   ELSE {calls[Len(calls)].now, calls[Len(calls)].now + 1}) :
          calls' = Append(calls, [htmlContent |-> arg[Len(calls) + 1], now |-> now,
                                  at |-> "writeFile", validated |-> NoHtml,
                                  errors |-> <<>>, result |-> NoReturn])
    /\ pc' = "running"
    /\ UNCHANGED <<call, arg, ret, files, rvVars, impVars, processedUrls, errors, stack, visited, requests>>

\* await writeFile(tempFile, htmlContent, "utf-8"): the file is written, or
\* the write is rejected and the catch block takes over.
ValidateWrite ==
    /\ call = "validateHTML"
    /\ \E c \in 1..Len(calls) :
          /\ calls[c].at = "writeFile"
          /\ \/ /\ files' = writeFile(files, tempFile(calls[c].now), calls[c].htmlContent)
                /\ calls' = [calls EXCEPT ![c].at = "execFile"]
             \/ /\ calls' = [calls EXCEPT ![c].at = "unlink", ![c].errors = FailedToValidate]
                /\ UNCHANGED files
    /\ UNCHANGED <<call, arg, pc, ret, rvVars, impVars, processedUrls, errors, stack, visited, requests>>

\* await execFileAsync("java", [..., tempFile]) and the handling of stderr:
\* a report of the document at tempFile, filtered on type "error"; an empty
\* or truncated output, taken as no error; an output that is not JSON or a
\* failed run (timeout, no java), answered by the catch block.
ValidateExec ==
    /\ call = "validateHTML"
    /\ \E c \in 1..Len(calls) :
          /\ calls[c].at = "execFile"
          /\ \E stderr \in {"report", "empty", "truncated", "garbage", "rejected"} :
                calls' = [calls EXCEPT
                    ![c].at = "unlink",
                    ![c].validated =
                        IF stderr = "report" /\ tempFile(calls[c].now) \in DOMAIN files
                        THEN files[tempFile(calls[c].now)] ELSE NoHtml,
                    ![c].errors =
                        CASE stderr = "report" ->
                                 SelectSeq(parsedResult(files, tempFile(calls[c].now)),
                                           LAMBDA msg : msg.type = "error")
                          [] stderr \in {"empty", "truncated"} -> <<>>
                          [] OTHER -> FailedToValidate]
    /\ UNCHANGED <<call, arg, pc, ret, files, rvVars, impVars, processedUrls, errors, stack, visited, requests>>

\* finally { try { await unlink(tempFile) } catch {} }: the file is removed,
\* or unlink is rejected (no such file, no permission) and the rejection is
\* ignored; then the promise resolves with the array.
ValidateUnlink ==
    /\ call = "validateHTML"
    /\ \E c \in 1..Len(calls) :
          /\ calls[c].at = "unlink"
          /\ LET after == [calls EXCEPT ![c].at = "settled",
                                        ![c].result = Returned(calls[c].errors)]
             IN  /\ \/ files' = unlink(files, tempFile(calls[c].now))
                    \/ UNCHANGED files
                 /\ calls' = after
                 /\ pc' = IF Settled(after, Len(arg)) THEN "done" ELSE pc
    /\ UNCHANGED <<call, arg, ret, rvVars, impVars, processedUrls, errors, stack, visited, requests>>

InitValidate ==
    /\ InitCall("validateHTML", [1..MaxCalls -> HtmlDocuments])
    /\ IoIdle

NextValidate == ValidateCall \/ ValidateWrite \/ ValidateExec \/ ValidateUnlink

SpecValidate == InitValidate /\ [][NextValidate]_vars

(***************************************************************************)
(* Claims about resolveVariable                                            *)
(***************************************************************************)
\* C4: resolveVariable never performs more than 10 rewrite iterations and
\* always reaches its return, whatever the value and the declaration map,
\* self-referential chains included.
C4_ResolveTerminates ==
    /\ [](iterations <= maxIterations)
    /\ <>(rvPc = "done")

\* --a: var(--b); --b: var(--a) resolved from var(--a): the loop stopped by
\* the bound.
C4_Witness ==
    /\ rvPc = "done"
    /\ iterations = maxIterations
    /\ value = <<VarTok("--a", "none", "")>>
    /\ ~cssVariables.isNull
    /\ cssVariables.map["--a"] = Declared(<<VarTok("--b", "none", "")>>)
    /\ cssVariables.map["--b"] = Declared(<<VarTok("--a", "none", "")>>)

\* A var() occurrence the claim says must be rewritten: its name is in the
\* declaration map, or it carries an inline fallback.
ClaimResolvable(tok, decls) ==
    tok.kind = "var" /\ (decls.map[tok.name].declared \/ tok.fbKind # "none")

\* What the claim says takes the occurrence's place.
ClaimReplacement(tok, decls) ==
    IF decls.map[tok.name].declared THEN decls.map[tok.name].val
    ELSE IF tok.fbKind = "lit" THEN <<Lit(tok.fbName)>>
    ELSE <<VarTok(tok.fbName, "none", "")>>

\* Number of substitutions the value needs (counted up to maxIterations)
\* when each step rewrites the leftmost occurrence that can be rewritten.
RECURSIVE SubstitutionsNeeded(_, _, _)
SubstitutionsNeeded(s, decls, n) ==
    LET idx == {i \in 1..Len(s) : ClaimResolvable(s[i], decls)}
    IN  IF n >= maxIterations \/ idx = {} THEN n
        ELSE LET i == CHOOSE k \in idx : \A j \in idx : k <= j
             IN  SubstitutionsNeeded(Splice(s, i, ClaimReplacement(s[i], decls)),
                                     decls, n + 1)

\* C5: for a value that needs fewer than 10 substitutions, the returned
\* string holds no var() occurrence whose name is declared or which has an
\* inline fallback, whatever else the value contains (stated for maps whose
\* declared values are all non-empty text).
C5_EveryOccurrenceRewritten ==
    ( /\ rvPc = "done"
      /\ ~cssVariables.isNull
      /\ \A n \in VarNames : cssVariables.map[n] # Declared(<<>>)
      /\ SubstitutionsNeeded(value, cssVariables, 0) < maxIterations )
    => \A i \in 1..Len(resolved) : ~ClaimResolvable(resolved[i], cssVariables)

(***************************************************************************)
(* Claims about the images analyzer                                        *)
(***************************************************************************)
\* The result the specification gives for zero images.
NoImageResult(score) ==
    /\ score.total = 100
    /\ score.grade = "A"
    /\ score.improvements = <<"Aucune image a optimiser.">>

\* No page of the list contributes an image: a page has no image analysis or
\* its analysis counted zero images.
NoImageInPages(pages) ==
    \A i \in 1..Len(pages) : ~pages[i].hasAnalysis \/ pages[i].images = <<>>

\* C9: with zero images supplied the images score is total 100, grade "A",
\* improvements ["Aucune image a optimiser."]: for analyzeImages on an empty
\* list, and for synthesizeImagesAnalysis on no pages (null or empty), on
\* pages without image analysis and on pages whose image counts are zero.
C9_ZeroImages ==
    /\ (pc = "done" /\ call = "analyzeImages" /\ arg.images = <<>>)
            => (ret.status = "returned" /\ NoImageResult(ret.out.score))
    /\ (pc = "done" /\ call = "synthesizeImagesAnalysis" /\ NoImageInPages(arg.pages))
            => (ret.status = "returned" /\ NoImageResult(ret.out.globalScore))

\* synthesizeImagesAnalysis has scored a list that holds both a page without
\* analysis and a page whose analysis counted no image.
C9_Witness ==
    /\ pc = "done"
    /\ call = "synthesizeImagesAnalysis"
    /\ Len(arg.pages) = 2
    /\ NoImageInPages(arg.pages)
    /\ \E i \in 1..2 : arg.pages[i].hasAnalysis
    /\ \E i \in 1..2 : ~arg.pages[i].hasAnalysis
    /\ ret.out.totalPages = 2
    /\ NoImageResult(ret.out.globalScore)

(***************************************************************************)
(* Claims about the colours analyzer                                       *)
(***************************************************************************)
\* C10: when zero colours are detected (the colour table is absent or has no
\* entry) analyzeColors returns total 0, no non-zero breakdown score and the
\* grade "N/A".
C10_ZeroColors ==
    (pc = "done" /\ call = "analyzeColors"
        /\ (arg.isNull \/ ~arg.hasUnique \/ arg.unique = {}))
    => /\ ret.status = "returned"
       /\ ret.out.score.total = 0
       /\ \A k \in DOMAIN ret.out.score.breakdown : ret.out.score.breakdown[k].score = 0
       /\ ret.out.score.grade = "N/A"

\* The entries of a detectSimilarColors output whose similarTo lists colour b.
Lists(entry, b) == \E k \in 1..Len(entry.similarTo) : entry.similarTo[k] = b

\* C17: similarity is symmetric: areColorsSimilar(c1, c2) equals
\* areColorsSimilar(c2, c1) for every pair of colours of the table, and in
\* the output of detectSimilarColors a lists b in similarTo exactly when b
\* lists a.
C17_SimilaritySymmetric ==
    (pc = "done" /\ call = "analyzeColors" /\ ~arg.isNull /\ arg.hasUnique)
    => /\ \A i, j \in arg.unique :
            areColorsSimilar(Palette[i], Palette[j])
                = areColorsSimilar(Palette[j], Palette[i])
       /\ \A x, y \in 1..Len(ret.out.opaqueColors) :
            Lists(ret.out.opaqueColors[x], ret.out.opaqueColors[y].color)
                <=> Lists(ret.out.opaqueColors[y], ret.out.opaqueColors[x].color)

C17_Witness ==
    /\ pc = "done"
    /\ call = "analyzeColors"
    /\ ~arg.isNull
    /\ arg.hasUnique
    /\ Len(ret.out.opaqueColors) >= 4
    /\ \E x, y, z \in 1..Len(ret.out.opaqueColors) :
          /\ x < y
          /\ Lists(ret.out.opaqueColors[x], ret.out.opaqueColors[y].color)
          /\ Lists(ret.out.opaqueColors[y], ret.out.opaqueColors[x].color)
          /\ ~Lists(ret.out.opaqueColors[x], ret.out.opaqueColors[z].color)
          /\ ret.out.opaqueColors[z].similarTo = <<>>
          /\ ret.out.opaqueColors[z].color = "#0000ff"

(***************************************************************************)
(* Claims about the imports analyzer                                       *)
(***************************************************************************)
\* A probe that failed: the URL could not be resolved, the request was
\* rejected (status outside 2xx, network error, timeout) or the status is
\* not 200.
ProbeFailed(outcome) ==
    \/ outcome.kind \in {"unresolvable", "rejected"}
    \/ outcome.kind = "response" /\ outcome.status # 200

\* One step of analyzeImports that changes the records appends exactly one
\* record, for the next @import of the source, keeps the earlier records, and
\* gives it isValid = false when its probe failed.
C7_ProbeStep ==
    (call = "analyzeImports" /\ imports' # imports)
    => /\ Len(imports') = Len(imports) + 1
       /\ SubSeq(imports', 1, Len(imports)) = imports
       /\ imports'[Len(imports')].path = ImportMatches(arg.css)[Len(imports')].path.text
       /\ ProbeFailed(response') => ~imports'[Len(imports')].isValid

\* C7: analyzeImports handles the imports one at a time in source order and,
\* whatever the probes' outcomes, returns exactly one record per @import in
\* source order; a failed probe sets isValid = false on its own record, leaves
\* the other records unchanged and never makes analyzeImports throw or return
\* before the last import.
C7_OneRecordPerImport ==
    /\ [][C7_ProbeStep]_vars
    /\ []((call = "analyzeImports" /\ pc = "done")
          => /\ ret.status = "returned"
             /\ Len(ret.out.imports) = Len(ImportMatches(arg.css))
             /\ \A i \in 1..Len(ret.out.imports) :
                   ret.out.imports[i].path = ImportMatches(arg.css)[i].path.text)

\* Three imports were probed, the second probe was rejected and the third,
\* probed last, answered 200: the records around the failed one are valid.
C7_Witness ==
    /\ call = "analyzeImports"
    /\ pc = "done"
    /\ Len(ret.out.imports) = 3
    /\ ret.out.imports[1].isValid
    /\ ~ret.out.imports[2].isValid
    /\ ret.out.imports[3].isValid
    /\ response = Response(200, NullSize)
    /\ ret.out.organization.invalidCount = 1

\* C8: when the stylesheet holds no @import statement the imports score has
\* total 0, its breakdown says that no import was found, and analyzeImports
\* does not throw.
C8_ZeroImports ==
    (call = "analyzeImports" /\ pc = "done" /\ ImportMatches(arg.css) = <<>>)
    => /\ ret.status = "returned"
       /\ ret.out.score.total = 0
       /\ ret.out.score.breakdown.validity.details = "Aucun import detecte."

(***************************************************************************)
(* Claims about every score result                                         *)
(***************************************************************************)
\* The score results carried by the value a finished call returned.
ScoreResults ==
    IF pc # "done" \/ ret.status # "returned" THEN {}
    ELSE IF call = "synthesizeImagesAnalysis" THEN {ret.out.globalScore}
    ELSE IF call = "performClassAnalysis" THEN {ret.out.score.bem}
    ELSE IF call = "calculateImportsScore" THEN {ret.out}
    ELSE {ret.out.score}

\* The grade the specification gives a total.
ClaimGrade(total) ==
    IF total >= 90 THEN "A"
    ELSE IF total >= 80 THEN "B"
    ELSE IF total >= 70 THEN "C"
    ELSE IF total >= 60 THEN "D"
    ELSE "F"

\* C1: in every score result returned by one of the six scorers, each
\* criterion of the breakdown has 0 <= score <= max, its own declared max.
C1_ScoresWithinMax ==
    \A sr \in ScoreResults :
        \A k \in DOMAIN sr.breakdown :
            0 <= sr.breakdown[k].score /\ sr.breakdown[k].score <= sr.breakdown[k].max

\* C2: in every score result of the six analyzers, total is the sum of the
\* scores of the breakdown criteria, the zero-input branches included.
C2_TotalIsSum ==
    \A sr \in ScoreResults :
        sr.total = SumOver(DOMAIN sr.breakdown,
                           [k \in DOMAIN sr.breakdown |-> sr.breakdown[k].score])

\* C3 as stated: in every score result of the six analyzers the grade is
\* the function of total with thresholds 90 / 80 / 70 / 60.
C3_GradeFromTotalAlways ==
    \A sr \in ScoreResults : sr.grade = ClaimGrade(sr.total)

\* analyzeColors was handed no colour table (null, or no `unique` member).
NoColorData == call = "analyzeColors" /\ (arg.isNull \/ ~arg.hasUnique)

\* C3: in every score result of the six analyzers the grade is the function
\* of total with thresholds 90 / 80 / 70 / 60, except in the result
\* analyzeColors returns without colour data, which has total 0 and the
\* grade "N/A".
C3_GradeFromTotal ==
    \A sr \in ScoreResults :
        IF NoColorData
        THEN sr.grade = "N/A" /\ sr.total = 0
        ELSE sr.grade = ClaimGrade(sr.total)

\* analyzeTypography has returned a result graded "B".
C3_Witness ==
    /\ pc = "done"
    /\ call = "analyzeTypography"
    /\ ret.status = "returned"
    /\ ret.out.score.grade = "B"
    /\ ret.out.score.total \in 80..89

\* C6: every analyzer entry point returns a result and propagates no
\* exception, whatever the input, CSS the parser rejects included.
C6_NeverThrows ==
    (pc = "done" /\ call \in {"analyzeImports", "analyzeCustomProperties", "analyzeTypography",
                              "analyzeColors", "performClassAnalysis", "analyzeImages"})
    => ret.status = "returned"

(***************************************************************************)
(* Claims about the class analysis                                         *)
(***************************************************************************)
\* performClassAnalysis has returned.
ClassAnalysisDone == pc = "done" /\ call = "performClassAnalysis" /\ ret.status = "returned"

\* C11: computeBemMetrics puts every class of the combined HTML and CSS class
\* set into exactly one of the five categories block, element, modifier,
\* elementModifier, other: the five counts are natural numbers whose sum is
\* the number of distinct classes.
C11_CategoriesPartition ==
    ClassAnalysisDone =>
        LET counts == ret.out.bem.counts
        IN  /\ \A k \in DOMAIN counts : counts[k] \in Nat
            /\ DOMAIN counts = {"blocks", "elements", "modifiers", "elementModifiers", "other"}
            /\ counts.blocks + counts.elements + counts.modifiers
                 + counts.elementModifiers + counts.other
               = Cardinality(ret.out.html.uniqueClasses \cup ret.out.css.uniqueClasses)

\* An analysis whose combined class set holds a class of each category.
C11_Witness ==
    /\ ClassAnalysisDone
    /\ \A k \in DOMAIN ret.out.bem.counts : ret.out.bem.counts[k] > 0

\* C12: for every class block--mod of the combined HTML and CSS class set
\* whose block name is not a class of that set, computeBemMetrics records a
\* violation entry for the class.
C12_ModifierWithoutBlock ==
    ClassAnalysisDone =>
        LET allClasses == ret.out.html.uniqueClasses \cup ret.out.css.uniqueClasses
        IN  \A cls \in allClasses :
                (Len(cls) = 3 /\ cls[2] = "--" /\ <<cls[1]>> \notin allClasses)
                => \E v \in ret.out.bem.violations : v.cls = cls

\* C13: coverageHtml and coverageCss of computeComparisons lie in [0, 1]
\* (0..1000 thousandths) for every pair of HTML and CSS class sets, and each
\* is 0 when its own class set is empty.
C13_CoverageInUnitInterval ==
    ClassAnalysisDone =>
        /\ ret.out.mismatch.coverageHtml \in 0..1000
        /\ ret.out.mismatch.coverageCss \in 0..1000
        /\ ret.out.html.uniqueClasses = {} => ret.out.mismatch.coverageHtml = 0
        /\ ret.out.css.uniqueClasses = {} => ret.out.mismatch.coverageCss = 0

\* The HTML holds no class while the stylesheet does: coverageHtml is the 0
\* of the empty set.
C13_Witness ==
    /\ ClassAnalysisDone
    /\ ret.out.html.uniqueClasses = {}
    /\ ret.out.css.uniqueClasses # {}
    /\ ret.out.mismatch.coverageHtml = 0

\* C14: for the CSS classes {btn, btn__icon, btn--primary, card} and the
\* HTML classes {btn, btn__icon, btn--primary, card, unused-thing} the
\* analysis reports the blocks btn (structured: it has an element and a
\* modifier) and card (orphan) and no other block, and undefinedHtmlClasses
\* contains unused-thing.
C14_ButtonCardScenario ==
    LET cssClasses == {<<"btn">>, <<"btn", "__", "icon">>, <<"btn", "--", "primary">>, <<"card">>}
    IN  (/\ ClassAnalysisDone
         /\ ret.out.css.uniqueClasses = cssClasses
         /\ ret.out.html.uniqueClasses = cssClasses \cup {<<"unused-thing">>})
        => /\ DOMAIN ret.out.bem.blocks = {"btn", "card"}
           /\ ret.out.bem.blocks["btn"].elements # {}
           /\ ret.out.bem.blocks["btn"].modifiers # {}
           /\ ret.out.bem.blocks["card"].elements = {}
           /\ ret.out.bem.blocks["card"].modifiers = {}
           /\ ret.out.bem.blockStructure.structuredBlocks = 1
           /\ ret.out.bem.blockStructure.orphanBlocks = 1
           /\ <<"unused-thing">> \in ret.out.mismatch.undefinedHtmlClasses

\* C23: the registry of computeBemMetrics holds a block for every block name
\* an element, modifier or element-modifier class refers to, even when the
\* bare block class never appears, and implicitBlocks lists exactly those
\* whose bare class is absent; a block is orphan exactly when it has no
\* element, modifier or element modifier; structuredBlocks + orphanBlocks =
\* totalBlocks and no implicit block is orphan.
C23_BlockRegistry ==
    ClassAnalysisDone =>
        LET allClasses == ret.out.html.uniqueClasses \cup ret.out.css.uniqueClasses
            referenced == {cls[1] : cls \in {c \in allClasses :
                              elementPattern(c) \/ blockModPattern(c) \/ elementModPattern(c)}}
            bare == {cls[1] : cls \in {c \in allClasses : blockPattern(c)}}
            blocks == ret.out.bem.blocks
            bare0(name) == /\ blocks[name].elements = {}
                           /\ blocks[name].modifiers = {}
                           /\ blocks[name].elementModifiers = {}
            bs == ret.out.bem.blockStructure
        IN  /\ DOMAIN blocks = referenced \cup bare
            /\ bs.implicitBlocks = referenced \ bare
            /\ bs.totalBlocks = Cardinality(DOMAIN blocks)
            /\ bs.orphanBlocks = Cardinality({name \in DOMAIN blocks : bare0(name)})
            /\ bs.structuredBlocks + bs.orphanBlocks = bs.totalBlocks
            /\ \A name \in bs.implicitBlocks : ~bare0(name)

\* A registry of two blocks: card is implicit (card--wide without card) and
\* structured, btn is orphan.
C23_Witness ==
    /\ ClassAnalysisDone
    /\ ret.out.bem.blockStructure.implicitBlocks = {"card"}
    /\ ret.out.bem.blockStructure.totalBlocks = 2
    /\ ret.out.bem.blockStructure.orphanBlocks = 1
    /\ ret.out.bem.blockStructure.structuredBlocks = 1

(***************************************************************************)
(* Claims about the images analyzer: aggregation, scenario, formats        *)
(***************************************************************************)
\* What analyzeImages returned for the pages of the list that carry an
\* image analysis, in order.
AnalysedPages ==
    LET analysed == SelectSeq(arg.pages, LAMBDA pg : pg.hasAnalysis)
    IN  [i \in 1..Len(analysed) |-> analyzeImages(analysed[i].images, analysed[i].hasRequests)]

\* C15: synthesizeImagesAnalysis scores the page-wise sums of the image
\* counters and of the format counts with the scoring function of
\* analyzeImages; for a project with a single analysed page the global score
\* (total, breakdown, grade) is that page's own score.
C15_SynthesisReusesScorer ==
    (pc = "done" /\ call = "synthesizeImagesAnalysis" /\ Len(AnalysedPages) > 0)
    => /\ ret.status = "returned"
       /\ \A field \in {"totalImages", "imagesWithAlt", "imagesWithoutAlt", "imagesWithGoodAlt",
                        "imagesWithPoorAlt", "decorativeImages", "contentImages",
                        "imagesWithLazyLoading"} :
             ret.out.globalStats[field]
               = SumSeq([i \in 1..Len(AnalysedPages) |-> AnalysedPages[i].data[field]])
       /\ \A f \in FormatKeys :
             ret.out.formats[f]
               = SumSeq([i \in 1..Len(AnalysedPages) |-> AnalysedPages[i].data.formats[f]])
       /\ ret.out.globalScore
            = calculateImagesScore(ret.out.globalStats @@ [formats |-> ret.out.formats])
       /\ Len(AnalysedPages) = 1 => ret.out.globalScore = AnalysedPages[1].score

\* A single analysed page whose images have a weight known from the network
\* requests, scored below 100.
C15_Witness ==
    /\ pc = "done"
    /\ call = "synthesizeImagesAnalysis"
    /\ Len(AnalysedPages) = 1
    /\ AnalysedPages[1].data.top5AverageWeight # NullWeight
    /\ ret.out.globalScore.total < 100
    /\ ret.out.globalScore = AnalysedPages[1].score

\* The points calculateImagesScore gives the top-5 average weight w.
ClaimWeightPoints(w) ==
    IF w = NullWeight THEN 11
    ELSE IF w < 80 * 1024 THEN 15
    ELSE IF w < 150 * 1024 THEN 13
    ELSE IF w < 250 * 1024 THEN 10
    ELSE IF w < 400 * 1024 THEN 7
    ELSE 4

\* analyzeImages has returned for ten images: 8 with the descriptive alt
\* "Sunset over the bay" and loading="lazy", 2 decorative with alt="".
TenImagesScenario ==
    /\ pc = "done"
    /\ call = "analyzeImages"
    /\ Len(arg.images) = 10
    /\ Cardinality({i \in 1..10 : /\ arg.images[i].alt = "Sunset over the bay"
                                  /\ arg.images[i].ariaHidden = NoAriaHidden
                                  /\ arg.images[i].hasLazyLoading}) = 8
    /\ Cardinality({i \in 1..10 : arg.images[i].alt = ""}) = 2

\* The conclusion of the ten-image scenario: alt-presence ratio 0.8,
\* decorative ratio 0.2 earning the 10 sweet-spot points (accessibility is
\* 13 + 10 + 10), lazy-loading ratio 1.0 with lazy-loading points below 20.
TenImagesOutcome ==
    /\ ret.status = "returned"
    /\ 10 * ret.out.data.imagesWithAlt = 8 * ret.out.data.totalImages
    /\ ret.out.data.decorativeRatio = 20
    /\ ret.out.score.breakdown.accessibility.score = 13 + 10 + 10
    /\ ret.out.data.imagesWithLazyLoading = ret.out.data.totalImages
    /\ ret.out.score.breakdown.performance.score
         - ClaimWeightPoints(ret.out.data.top5AverageWeight) < 20

SameFormat(a, b) == a = b \/ {a, b} = {"jpg", "jpeg"}

\* C20: detectImageFormat resolves the format from the extension first: an
\* image whose src has a recognised extension gets that extension's format
\* whatever the MIME type of its network request, and the MIME type decides
\* only when the extension is absent or unrecognised.
C20_ExtensionFirst ==
    (pc = "done" /\ call = "analyzeImages" /\ ret.status = "returned")
    => \A i \in 1..Len(ret.out.data.images) :
          LET img == ret.out.data.images[i]
          IN  IF img.ext \in validExtensions
              THEN SameFormat(img.format, img.ext)
              ELSE img.format = detectImageFormat("", img.mimeType)

\* C30: in every result of analyzeImages the alt counters, the good/poor
\* counters, the decorative/content counters and the per-format counters
\* (unknown included) each partition the images, and no more images are
\* lazy-loaded than there are images.
C30_CountersPartition ==
    (pc = "done" /\ call = "analyzeImages" /\ ret.status = "returned")
    => LET d == ret.out.data
       IN  /\ d.totalImages = Len(arg.images)
           /\ d.imagesWithAlt + d.imagesWithoutAlt = d.totalImages
           /\ d.imagesWithGoodAlt + d.imagesWithPoorAlt = d.imagesWithAlt
           /\ d.decorativeImages + d.contentImages = d.totalImages
           /\ d.imagesWithLazyLoading <= d.totalImages
           /\ SumOver(DOMAIN d.formats, d.formats) = d.totalImages

C30_Witness ==
    /\ pc = "done"
    /\ call = "analyzeImages"
    /\ ret.status = "returned"
    /\ ret.out.data.imagesWithPoorAlt > 0
    /\ ret.out.data.imagesWithoutAlt > 0
    /\ ret.out.data.formats["unknown"] > 0
    /\ ret.out.data.imagesWithLazyLoading \in 1..(ret.out.data.totalImages - 1)

(***************************************************************************)
(* Claims about the imports score                                          *)
(***************************************************************************)
\* A scored analysisData and the breakdown entry of its modularity criterion:
\* the argument of calculateImportsScore, or the result of analyzeImports.
ImportsScored ==
    /\ pc = "done"
    /\ call \in {"calculateImportsScore", "analyzeImports"}
    /\ ret.status = "returned"
ScoredData == IF call = "analyzeImports" THEN ret.out ELSE arg
ScoredModularity ==
    IF call = "analyzeImports" THEN ret.out.score.breakdown.performance
    ELSE ret.out.breakdown.performance

\* The number of probed files larger than 100KB.
LargeFiles(data) ==
    Cardinality({i \in 1..Len(data.imports) : data.imports[i].fileSize > 100000})

\* The points the claim gives to the import count alone: 20 between 15 and
\* 25, and the lower values of the code's ladder outside.
ClaimCountPoints(total) ==
    IF total >= 15 /\ total <= 25 THEN 20
    ELSE IF total > 25 /\ total <= 30 THEN 17
    ELSE IF total >= 10 /\ total < 15 THEN 15
    ELSE IF total > 30 THEN 12
    ELSE IF total >= 5 THEN 10
    ELSE IF total > 0 THEN 5
    ELSE 0

\* C22: the modularity criterion is 20 exactly when the import count is in
\* 15..25 and no probed file exceeds 100KB; the count points are strictly
\* below 20 for every count below 15 or above 25; each file larger than
\* 100KB subtracts 2 points, 5 at most in total; and the score is never
\* below 0.
C22_Modularity ==
    ImportsScored
    => LET total == ScoredData.total
           large == LargeFiles(ScoredData)
           penalty == IF 2 * large < 5 THEN 2 * large ELSE 5
       IN  /\ ScoredModularity.max = 20
           /\ ScoredModularity.score = 20 <=> (total \in 15..25 /\ large = 0)
           /\ total \notin 15..25 => ClaimCountPoints(total) < 20
           /\ ScoredModularity.score = Max(0, ClaimCountPoints(total) - penalty)
           /\ ScoredModularity.score >= 0

C22_Witness ==
    /\ ImportsScored
    /\ ScoredData.total = 33
    /\ LargeFiles(ScoredData) = 4
    /\ ScoredModularity.score = 7

(***************************************************************************)
(* Claims about the variables analyzer                                     *)
(***************************************************************************)
\* analyzeCustomProperties has returned.
VariablesDone ==
    pc = "done" /\ call = "analyzeCustomProperties" /\ ret.status = "returned"

\* The number of var(--name) occurrences in the whole stylesheet.
UsagesOf(css, name) ==
    SumSeq([i \in 1..Len(css) |->
               Cardinality({k \in 1..Len(css[i].uses) : css[i].uses[k] = name})])

C24_VariablesCounters ==
    VariablesDone
    => LET r == ret.out
           D == 1..Len(r.declarations)
           U == 1..Len(r.undeclaredUsages)
       IN  /\ r.totalDeclared = Len(r.declarations)
           /\ r.totalUsed + r.totalUnused = r.totalDeclared
           /\ r.totalUnused = Len(r.unusedVariables)
           /\ {r.unusedVariables[k] : k \in 1..Len(r.unusedVariables)}
                 = {r.declarations[k] : k \in {d \in D : r.declarations[d].usageCount = 0}}
           /\ \A a, b \in U : r.undeclaredUsages[a] = r.undeclaredUsages[b] => a = b
           /\ \A a \in U : \A d \in D : r.undeclaredUsages[a] # r.declarations[d].name
           /\ r.totalUndeclared = Len(r.undeclaredUsages)
           /\ SumOver(DOMAIN r.categorization, r.categorization) = r.totalDeclared
           /\ DOMAIN r.categorization = {"color", "typography", "spacing", "radius", "other"}

C24_Witness ==
    /\ VariablesDone
    /\ ret.out.totalDeclared = 3
    /\ ret.out.totalUsed = 1
    /\ ret.out.totalUnused = 2
    /\ ret.out.categorization["other"] = 2
    /\ \E k \in 1..3 : ret.out.declarations[k].category = "layout"

(***************************************************************************)
(* Claims about the typography analyzer                                    *)
(***************************************************************************)
\* analyzeTypography has returned for a stylesheet the parser accepts.
TypographyDone ==
    pc = "done" /\ call = "analyzeTypography" /\ ret.status = "returned"

\* The rules of a stylesheet without the font-family declarations whose var()
\* stays unresolved and has no usable inline fallback.
WithoutUnresolved(rules) ==
    [r \in 1..Len(rules) |->
        TypoRule(rules[r].global,
                 SelectSeq(rules[r].decls,
                           LAMBDA d : ~(d.prop = "font-family" /\ d.unresolved)))]

\* Some rule of the stylesheet has such a declaration.
HasUnresolved(rules) ==
    \E r \in 1..Len(rules) : \E k \in 1..Len(rules[r].decls) :
        rules[r].decls[k].prop = "font-family" /\ rules[r].decls[k].unresolved

\* C18: a font-family declaration whose value keeps a var() after resolution
\* and has no usable inline fallback is dropped before aggregation:
\* totalFontFamilyDeclarations, hasGlobalFontFamily, inheritanceQuality and
\* the family map are those of the same CSS without that declaration.
C18_UnresolvedDropped ==
    (TypographyDone /\ HasUnresolved(arg.compiledCss.rules))
    => LET absent == analyzeTypography(arg.htmlContent, arg.cssRawContent,
                                       WithoutUnresolved(arg.compiledCss.rules))
       IN  /\ ret.out.summary.totalFontFamilyDeclarations
                = absent.summary.totalFontFamilyDeclarations
           /\ ret.out.summary.hasGlobalFontFamily = absent.summary.hasGlobalFontFamily
           /\ ret.out.summary.inheritanceQuality = absent.summary.inheritanceQuality
           /\ ret.out.fontFamilies = absent.fontFamilies

\* The number of font-family declarations of the rules whose global flag
\* (a selector among html, body, :root, *) is g.
FamilyDeclarations(rules, g) ==
    SumSeq([r \in 1..Len(rules) |->
               IF rules[r].global = g
               THEN Len(SelectSeq(rules[r].decls, LAMBDA d : d.prop = "font-family"))
               ELSE 0])

\* C19: inheritanceQuality (in thousandths) is 1 - non-global font-family
\* declarations / all font-family declarations when a global font-family
\* declaration exists, and 0 when none exists; checked on stylesheets all of
\* whose font-family values resolve.
C19_InheritanceQuality ==
    (TypographyDone /\ ~HasUnresolved(arg.compiledCss.rules))
    => LET global == FamilyDeclarations(arg.compiledCss.rules, TRUE)
           nonGlobal == FamilyDeclarations(arg.compiledCss.rules, FALSE)
       IN  ret.out.summary.inheritanceQuality
             = IF global > 0
               THEN 1000 - RoundDiv(1000 * nonGlobal, global + nonGlobal)
               ELSE 0

(***************************************************************************)
(* Claims about inlineAllImports                                           *)
(***************************************************************************)
\* The number of pieces of a kind (for a URL) in a text.
PiecesOf(text, kind) == Cardinality({k \in 1..Len(text) : text[k].kind = kind})
RulesOf(text, url) == Cardinality({k \in 1..Len(text) : text[k] = Piece("rules", url)})

\* A step of inlineAllImports: a call is expanded (it passes the test of
\* processedUrls) only for a URL that is not in the set yet, and a failed
\* GET adds one error while the same call goes on with its next match.
C25_Step ==
    /\ (/\ Len(stack') = Len(stack)
        /\ stack # <<>>
        /\ stack'[Len(stack)].entered
        /\ ~stack[Len(stack)].entered)
       => /\ stack[Len(stack)].currentUrl \notin processedUrls
          /\ processedUrls' = processedUrls \cup {stack[Len(stack)].currentUrl}
    /\ errors' # errors
       => /\ Len(errors') = Len(errors) + 1
          /\ SubSeq(errors', 1, Len(errors)) = errors
          /\ Len(stack') = Len(stack)
          /\ stack'[Len(stack)].done = stack[Len(stack)].done + 1
          /\ PiecesOf(stack'[Len(stack)].result, "failed")
               = PiecesOf(stack[Len(stack)].result, "failed") + 1
          /\ pc' = "call"

FetchDone == call = "fetchAndCompileCss" /\ pc = "done"

ChildrenOf(c) == SelectSeq([k \in 1..Len(calls) |-> k], LAMBDA k : calls[k].parent = c)

\* C26: under fair scheduling of the settled requests and continuations,
\* fetchAndCompileCss terminates on every import graph over the URLs, cyclic
\* ones included; in every interleaving no URL is requested twice in one
\* top-level call; a call whose GET fails resolves to the empty string, and
\* the top-level call always returns and never throws.
C26_FetchTerminates ==
    /\ <>(pc = "done")
    /\ [](\A i, j \in 1..Len(requests) : requests[i] = requests[j] => i = j)
    /\ [](\A c \in 1..Len(calls) :
             calls[c].outcome = "error" => calls[c].at = "resolved" /\ calls[c].css = <<>>)
    /\ [](pc = "done" => ret.status = "returned")

\* A cyclic graph (main.css imports a.css and b.css, a.css imports main.css)
\* was compiled: three requests, two calls skipped because their URL was
\* visited, one GET failed and the top-level call returned.
C26_Witness ==
    /\ FetchDone
    /\ arg["main.css"] = <<"a.css", "b.css">>
    /\ arg["a.css"] = <<"main.css">>
    /\ arg["b.css"] = <<"a.css">>
    /\ Len(requests) = 3
    /\ \E c \in 1..Len(calls) : calls[c].outcome = "error" /\ calls[c].url = "b.css"
    /\ ret.status = "returned"
    /\ ret.out # <<>>

\* C27: when a file has several @import statements and each of them started
\* a call whose GET succeeded, the text returned for the file is the compiled
\* content of the first imported file, then that of the second, and so on,
\* followed by the file's own rules, and no @import statement remains.
C27_EachImportReplaced ==
    FetchDone =>
        \A c \in 1..Len(calls) :
            (/\ calls[c].outcome = "ok"
             /\ Len(ChildrenOf(c)) >= 2
             /\ \A k \in 1..Len(ChildrenOf(c)) : calls[ChildrenOf(c)[k]].outcome = "ok")
            => /\ calls[c].css =
                      ConcatAll([k \in 1..Len(ChildrenOf(c)) |-> calls[ChildrenOf(c)[k]].css])
                          \o <<Piece("rules", calls[c].url)>>
               /\ PiecesOf(calls[c].css, "import") = 0

(***************************************************************************)
(* Claims about compileCSS                                                 *)
(***************************************************************************)
\* C28: in every interleaving of the writeFile, process and unlink steps of
\* the compileCSS calls served at the same time, a call that has settled has
\* returned, without an error of the file system, the compiled CSS of its own
\* input.
C28_NoInterference ==
    call = "compileCSS" =>
        \A c \in 1..Len(calls) :
            calls[c].at = "settled" =>
                calls[c].result = Returned(compiledCss(calls[c].cssContent))

(***************************************************************************)
(* Claims about validateHTML                                               *)
(***************************************************************************)
\* C29: whatever step failed, a validateHTML call that has settled has
\* resolved with an array and never rejected, the temporary file it named no
\* longer exists, and the document the validator read for it, if any, is the
\* HTML the call was given.
C29_ValidateSettles ==
    call = "validateHTML" =>
        \A c \in 1..Len(calls) :
            calls[c].at = "settled" =>
                /\ calls[c].result.status = "returned"
                /\ DOMAIN calls[c].result.out = 1..Len(calls[c].result.out)
                /\ tempFile(calls[c].now) \notin DOMAIN files
                /\ calls[c].validated \in {NoHtml, calls[c].htmlContent}

=============================================================================
